---------------------------- MODULE Spec2Model ----------------------------
(***************************************************************************)
(* A model of the CMRInet codec (crate cmri) and of the tools built on it  *)
(* (crate cmri_tools): the byte-at-a-time receive machine of frame::Raw,   *)
(* the packet <-> raw packet <-> frame conversions, Connection::receive    *)
(* and the controller's polling loop.                                      *)
(*                                                                         *)
(* Bytes are naturals in 0..255.  A Rust panic (index out of bounds, a     *)
(* failed expect, unreachable!()) is modelled as the result "Panic".       *)
(***************************************************************************)
EXTENDS Integers, Sequences, FiniteSets, TLC

VARIABLES
    frame,          \* frame::Raw under test: len, raw[0..len], receive_state, packet_len
    result,         \* what the last Raw::receive call returned
    fed,            \* the bytes passed to Raw::receive since Raw::new()
    shadow,         \* a Raw::new() made at the last reset / error, fed the same bytes
    shadowResult,   \* what the last receive call on shadow returned
    armed,          \* TRUE once reset() was called or receive returned TooShort / TooLong
    script,         \* the input still to be played: bytes, and RESET for a reset() call
    cin,            \* the input of the codec function under test
    cout,           \* the value the codec function returned
    cop,            \* which codec function produced cout
    conn,           \* the Connection: its private receive frame and the state of the receive future
    stream,         \* bytes the transport has not delivered yet
    consumed,       \* bytes Connection::receive has read from the transport
    returned,       \* the frames Connection::receive has returned, in order
    nodes,          \* controller State.nodes: node address -> Node (to_initialise, ...)
    ctl,            \* the controller task: its place in run_connection
    wire,           \* what the controller sent and what its receive calls gave, in order
    obj,            \* the value a library call acts on: a NodeCards, Data, packet::Raw or Readings
    ret,            \* what the last call on obj returned
    calls,          \* the calls made on obj since it was constructed, in order
    mon,            \* the monitor: its State counters and what it has received
    sim,            \* the node simulator: its State, the packets it received and sent
    fw,             \* a firmware receive loop (test_node, poller): its Raw, the bus, where it is
    hub             \* the hub: its lock, its connections' channels and tasks

rxVars   == <<frame, result, fed, shadow, shadowResult, armed, script>>
codecVars == <<cin, cout, cop>>
connVars == <<conn, stream, consumed, returned>>
ctlVars  == <<nodes, ctl, wire>>
libVars  == <<obj, ret, calls>>
toolVars == <<mon, sim, fw, hub>>
vars     == <<frame, result, fed, shadow, shadowResult, armed, script,
              cin, cout, cop, conn, stream, consumed, returned, nodes, ctl, wire,
              obj, ret, calls, mon, sim, fw, hub>>

-----------------------------------------------------------------------------
(* Program constants *)

SYN == 255
STX == 2
ETX == 3
DLE == 16

FRAME_MAX_LEN  == 518
PACKET_MAX_LEN == 258
DATA_MAX_LEN   == 256

UA_OFFSET == 65
MAX_NODE_ADDRESS == 127

MT_I == 73
MT_P == 80
MT_R == 82
MT_T == 84

NDP_USIC   == 78
NDP_SUSIC  == 88
NDP_SMINI  == 77
NDP_CPNODE == 67
NDP_CPMEGA == 79

-----------------------------------------------------------------------------
(* Small helpers on sequences of bytes *)

Repeat(b, n) == [i \in 1..n |-> b]

Min(a, b) == IF a <= b THEN a ELSE b

-----------------------------------------------------------------------------
(* frame::Raw : construction, reset and the receive state machine *)

\* Raw::new()
NewFrame ==
    [len |-> 0, raw |-> <<>>, receive_state |-> "WaitingForSyn", packet_len |-> 0]

\* Raw::reset(): len and receive_state only; packet_len is left as it is
reset(f) ==
    [f EXCEPT !.len = 0, !.raw = <<>>, !.receive_state = "WaitingForSyn"]

\* the accept_byte closure of Raw::receive: raw[len] = byte; len += 1; state
accept_byte(f, byte, state) ==
    [f EXCEPT !.raw = Append(f.raw, byte), !.len = f.len + 1, !.receive_state = state]

\* raw[len] = byte panics when len is already the array's size
CanAccept(f) == f.len < FRAME_MAX_LEN

Ret(f, r) == [frame |-> f, result |-> r]

Accept(f, byte, state) ==
    IF CanAccept(f) THEN Ret(accept_byte(f, byte, state), "OkFalse")
                    ELSE Ret(f, "Panic")

\* a Received arm that keeps accumulating bytes
receive_Received_accumulates(f, byte) == Accept(f, byte, "Received")

\* receive, arm (Received, _): nothing is stored, AlreadyComplete
receive_Received(f, byte) == Ret(f, "AlreadyComplete")

\* receive, arms (WaitingForSyn, SYN) and (WaitingForSyn, _)
receive_WaitingForSyn(f, byte) ==
    IF byte = SYN THEN Accept(f, byte, "WaitingForSynSyn")
                  ELSE Ret(f, "OkFalse")

\* receive, arms (WaitingForSynSyn, SYN) and (WaitingForSynSyn, _)
receive_WaitingForSynSyn(f, byte) ==
    IF byte = SYN THEN Accept(f, byte, "WaitingForSynSynStx")
                  ELSE Ret(reset(f), "OkFalse")

\* a WaitingForSynSynStx arm that stores every SYN it is given
receive_WaitingForSynSynStx_stores_syn(f, byte) ==
    IF byte = STX THEN Accept(f, byte, "Receiving")
    ELSE IF byte = SYN THEN Accept(f, byte, "WaitingForSynSynStx")
    ELSE Ret(reset(f), "OkFalse")

\* receive, arms (WaitingForSynSynStx, STX), (WaitingForSynSynStx, SYN), (WaitingForSynSynStx, _)
receive_WaitingForSynSynStx(f, byte) ==
    IF byte = STX THEN Accept(f, byte, "Receiving")
    ELSE IF byte = SYN THEN Ret(f, "OkFalse")
    ELSE Ret(reset(f), "OkFalse")

\* receive, arms (Receiving, ETX), (Receiving, DLE), (Receiving, _)
receive_Receiving(f, byte) ==
    IF byte = ETX THEN
        IF ~CanAccept(f) THEN Ret(f, "Panic")
        ELSE LET g == accept_byte(f, byte, "Received") IN
             IF g.len < 6 THEN Ret(reset(g), "TooShort")
                          ELSE Ret(g, "OkTrue")
    ELSE IF byte = DLE THEN Accept(f, byte, "ReceivingEscaped")
    ELSE IF f.packet_len >= PACKET_MAX_LEN THEN Ret(reset(f), "TooLong")
    ELSE Accept([f EXCEPT !.packet_len = f.packet_len + 1], byte, "Receiving")

\* a ReceivingEscaped arm that treats the byte like any unescaped byte
receive_ReceivingEscaped_unescaped(f, byte) == receive_Receiving(f, byte)

\* receive, arm (ReceivingEscaped, _)
receive_ReceivingEscaped(f, byte) == Accept(f, byte, "Receiving")

\* Raw::receive: the frame afterwards and the value returned
receive(f, byte) ==
    LET st == f.receive_state IN
    CASE st = "Received"            -> receive_Received(f, byte)
      [] st = "WaitingForSyn"       -> receive_WaitingForSyn(f, byte)
      [] st = "WaitingForSynSyn"    -> receive_WaitingForSynSyn(f, byte)
      [] st = "WaitingForSynSynStx" -> receive_WaitingForSynSynStx(f, byte)
      [] st = "Receiving"           -> receive_Receiving(f, byte)
      [] st = "ReceivingEscaped"    -> receive_ReceivingEscaped(f, byte)

-----------------------------------------------------------------------------
(* frame::Raw : the transmit side *)

\* a frame_available for a buffer one byte smaller
frame_available_tight(f) == FRAME_MAX_LEN - 1 - f.len

\* available(): MAX_LEN - len
frame_available(f) == FRAME_MAX_LEN - f.len

\* Raw::begin: raw[0..5] = [SYN, SYN, STX, unit address, message type]; len = 5
begin(f, unit_address, message_type) ==
    [f EXCEPT !.raw = <<SYN, SYN, STX, unit_address, message_type>>, !.len = 5]

\* the bytes Raw::push escapes
NeedsEscape(value) == value \in {SYN, STX, DLE, ETX}

\* Raw::push: Err(Full) when fewer than count bytes are free, else the
\* byte, after a DLE when it needs one; result is Ok(count) as the count
push(f, value) ==
    LET escape == NeedsEscape(value)
        count  == IF escape THEN 2 ELSE 1
    IN  IF frame_available(f) < count THEN Ret(f, "Full")
        ELSE IF escape
             THEN Ret([f EXCEPT !.raw = f.raw \o <<DLE, value>>, !.len = f.len + 2], "Ok")
             ELSE Ret([f EXCEPT !.raw = Append(f.raw, value), !.len = f.len + 1], "Ok")

\* Raw::finish: Err(Full) when the frame is full, else the closing ETX
finish(f) ==
    IF frame_available(f) < 1 THEN Ret(f, "Full")
    ELSE Ret([f EXCEPT !.raw = Append(f.raw, ETX), !.len = f.len + 1], "Ok")

\* the loop of try_as_raw_frame over body[lo..hi]: push every byte in order,
\* expect() each push (the range is halved to keep the evaluation shallow)
RECURSIVE PushRange(_, _, _, _)
PushRange(f, body, lo, hi) ==
    IF lo > hi THEN Ret(f, "Ok")
    ELSE IF lo = hi THEN
        LET r == push(f, body[lo]) IN
        IF r.result = "Full" THEN Ret(r.frame, "Panic") ELSE r
    ELSE LET mid  == (lo + hi) \div 2
             left == PushRange(f, body, lo, mid)
         IN  IF left.result = "Panic" THEN left
             ELSE PushRange(left.frame, body, mid + 1, hi)

PushAll(f, body) == PushRange(f, body, 1, Len(body))

-----------------------------------------------------------------------------
(* Results: Ok(value), Err(error) and a panic *)

Ok(v)  == [status |-> "Ok", value |-> v]
Err(e) == [status |-> "Err", value |-> e]
Panic  == [status |-> "Panic", value |-> <<>>]

IsOk(r) == r.status = "Ok"

-----------------------------------------------------------------------------
(* Address *)

MAX_UNIT_ADDRESS == 192

\* Address::try_from_unit_address: the stored value is the node address
try_from_unit_address(address) ==
    IF address >= UA_OFFSET /\ address <= MAX_UNIT_ADDRESS
    THEN Ok(address - UA_OFFSET)
    ELSE Err(<<"InvalidUnitAddress", address>>)

\* a constructor that takes any node address up to the unit address limit
try_from_node_address_to_192(address) ==
    IF address <= MAX_UNIT_ADDRESS THEN Ok(address)
    ELSE Err(<<"InvalidNodeAddress", address>>)

\* Address::try_from_node_address
try_from_node_address(address) ==
    IF address <= MAX_NODE_ADDRESS THEN Ok(address)
    ELSE Err(<<"InvalidNodeAddress", address>>)

\* Address::as_node_address
as_node_address(value) == value

\* Address::as_unit_address
as_unit_address(value) == value + UA_OFFSET

-----------------------------------------------------------------------------
(* packet::Data and packet::Raw, as the bytes they hold (raw[0..len]) *)

\* Data::push with its result dropped (let _ = raw.push(item)): a full Data
\* is left as it is
data_push(d, value) ==
    IF DATA_MAX_LEN - Len(d) = 0 THEN d ELSE Append(d, value)

\* for &item in items { let _ = raw.push(item) } over items[lo..hi]
RECURSIVE data_push_each(_, _, _, _)
data_push_each(d, items, lo, hi) ==
    IF lo > hi THEN d
    ELSE IF lo = hi THEN data_push(d, items[lo])
    ELSE LET mid  == (lo + hi) \div 2
             left == data_push_each(d, items, lo, mid)
         IN  IF DATA_MAX_LEN - Len(left) = 0 THEN left
             ELSE data_push_each(left, items, mid + 1, hi)

\* Data::try_from(&[u8])
data_try_from(value) ==
    IF Len(value) > DATA_MAX_LEN THEN Err(<<"BodyTooLong">>) ELSE Ok(value)

\* packet::Raw::push with its result dropped
packet_push(raw, value) ==
    IF PACKET_MAX_LEN - Len(raw) = 0 THEN raw ELSE Append(raw, value)

\* packet::Raw::push_all with its result dropped: all the items or none
packet_push_all(raw, items) ==
    IF PACKET_MAX_LEN - Len(raw) >= Len(items) THEN raw \o items ELSE raw

\* check_message_type (without the experimenter feature)
check_message_type(byte) ==
    IF byte \in {MT_I, MT_P, MT_R, MT_T} THEN Ok(byte)
    ELSE Err(<<"InvalidMessageType", byte>>)

\* two bytes, big endian and little endian
BeBytes(w) == <<w \div 256, w % 256>>
LeBytes(w) == <<w % 256, w \div 256>>
FromBe(hi, lo) == hi * 256 + lo
FromLe(lo, hi) == hi * 256 + lo

-----------------------------------------------------------------------------
(* node_configuration: CPNODE / CPMEGA *)

CPNODE_MIN_BITS == 16
CPNODE_MAX_BITS == 144
CPMEGA_MAX_BITS == 192

CpNdp(kind) == IF kind = "Cpnode" THEN NDP_CPNODE ELSE NDP_CPMEGA

\* the total of input and output bits, the sum taken in a u8
cp_bits_u8(input_bytes, output_bytes) ==
    (((input_bytes + output_bytes) % 256) * 8) % 65536

\* (u16::from(input_bytes) + u16::from(output_bytes)) * 8, as a u16
cp_bits(input_bytes, output_bytes) ==
    (((input_bytes + output_bytes) % 65536) * 8) % 65536

\* cp Configuration::try_new: the total of input and output bits is in range
cp_try_new(kind, transmit_delay, options, input_bytes, output_bytes) ==
    LET bits == cp_bits(input_bytes, output_bytes)
        lo   == IF kind = "Cpnode" THEN CPNODE_MIN_BITS ELSE 0
        hi   == IF kind = "Cpnode" THEN CPNODE_MAX_BITS ELSE CPMEGA_MAX_BITS
    IN  IF bits >= lo /\ bits <= hi
        THEN Ok([kind |-> kind, transmit_delay |-> transmit_delay,
                 options |-> options, input_bytes |-> input_bytes,
                 output_bytes |-> output_bytes])
        ELSE Err(<<"InvalidInputOutputBitsCount", bits, <<lo, hi>>>>)

\* a decode that reads the options as it reads the transmit delay, big-endian
cp_decode_options_be(kind, raw) ==
    IF raw[1] # CpNdp(kind) THEN Err(<<"InvalidNodeType", raw[1]>>)
    ELSE IF Len(raw) < 7 THEN Panic
    ELSE cp_try_new(kind, FromBe(raw[2], raw[3]), FromBe(raw[4], raw[5]),
                    raw[6], raw[7])

\* cp Configuration::decode: raw[1] .. raw[6] are indexed without a length
\* check, so a slice shorter than 7 bytes panics
cp_decode(kind, raw) ==
    IF raw[1] # CpNdp(kind) THEN Err(<<"InvalidNodeType", raw[1]>>)
    ELSE IF Len(raw) < 7 THEN Panic
    ELSE cp_try_new(kind, FromBe(raw[2], raw[3]), FromLe(raw[4], raw[5]),
                    raw[6], raw[7])

\* cp Configuration::encode: 13 bytes
cp_encode(c) ==
    <<CpNdp(c.kind)>> \o BeBytes(c.transmit_delay) \o LeBytes(c.options)
        \o <<c.input_bytes, c.output_bytes>> \o Repeat(SYN, 6)

-----------------------------------------------------------------------------
(* node_configuration: SMINI *)

\* bit i of the u64 built from [0, 0, pairs[0], .., pairs[5]] (big endian)
PairsBit(pairs, i) ==
    IF i >= 48 THEN 0
    ELSE (pairs[6 - (i \div 8)] \div (2 ^ (i % 8))) % 2

\* the iteration without the check made when a streak ends
pairs_count_bit_unchecked(st, bit) ==
    IF bit > 0
    THEN [st EXCEPT !.oscillating_count = @ + 1, !.streak = @ + 1]
    ELSE [st EXCEPT !.streak = 0]

\* one iteration of the loop of get_oscillating_pairs_count; failed is the
\* early return Err(NonAdjacent)
pairs_count_bit(st, bit) ==
    IF st.failed THEN st
    ELSE IF bit > 0
         THEN [st EXCEPT !.oscillating_count = @ + 1, !.streak = @ + 1]
         ELSE IF st.streak % 2 # 0 THEN [st EXCEPT !.failed = TRUE]
              ELSE [st EXCEPT !.streak = 0]

\* the iterations for i in lo..hi (the range is halved to keep the
\* evaluation shallow)
RECURSIVE pairs_count_range(_, _, _, _)
pairs_count_range(pairs, lo, hi, st) ==
    IF lo > hi THEN st
    ELSE IF lo = hi THEN pairs_count_bit(st, PairsBit(pairs, lo))
    ELSE LET mid  == (lo + hi) \div 2
             left == pairs_count_range(pairs, lo, mid, st)
         IN  IF left.failed THEN left
             ELSE pairs_count_range(pairs, mid + 1, hi, left)

\* SminiConfiguration::get_oscillating_pairs_count
get_oscillating_pairs_count(pairs) ==
    LET st == pairs_count_range(pairs, 0, 63,
                  [oscillating_count |-> 0, streak |-> 0, failed |-> FALSE])
    IN  IF st.failed THEN Err(<<"NonAdjacent">>)
        ELSE Ok(st.oscillating_count \div 2)

\* SminiConfiguration::try_new
smini_try_new(transmit_delay, oscillating_pairs) ==
    LET count == get_oscillating_pairs_count(oscillating_pairs) IN
    IF ~IsOk(count) THEN count
    ELSE Ok([kind |-> "Smini", transmit_delay |-> transmit_delay,
             oscillating_count |-> count.value,
             oscillating_pairs |-> oscillating_pairs])

\* a decode that takes the count byte as the oscillating_count
smini_decode_trusts_count(raw) ==
    IF raw[1] # NDP_SMINI THEN Err(<<"InvalidNodeType", raw[1]>>)
    ELSE IF Len(raw) < 4 \/ (raw[4] > 0 /\ Len(raw) < 10) THEN Err(<<"TooShort">>)
    ELSE LET made == smini_try_new(FromBe(raw[2], raw[3]),
                         IF raw[4] = 0 THEN Repeat(0, 6) ELSE SubSeq(raw, 5, 10))
         IN  IF ~IsOk(made) THEN made
             ELSE Ok([made.value EXCEPT !.oscillating_count = raw[4]])

\* SminiConfiguration::decode
smini_decode(raw) ==
    IF raw[1] # NDP_SMINI THEN Err(<<"InvalidNodeType", raw[1]>>)
    ELSE IF Len(raw) < 4 \/ (raw[4] > 0 /\ Len(raw) < 10) THEN Err(<<"TooShort">>)
    ELSE smini_try_new(FromBe(raw[2], raw[3]),
                       IF raw[4] = 0 THEN Repeat(0, 6) ELSE SubSeq(raw, 5, 10))

\* SminiConfiguration::encode
smini_encode(c) ==
    <<NDP_SMINI>> \o BeBytes(c.transmit_delay)
        \o (IF c.oscillating_count = 0 THEN <<0>>
            ELSE <<c.oscillating_count>> \o c.oscillating_pairs)

-----------------------------------------------------------------------------
(* node_configuration: USIC / SUSIC *)

MAX_CARDS == 64

CARD_NONE   == 0
CARD_INPUT  == 1
CARD_OUTPUT == 2

SicNdp(kind) == IF kind = "Usic" THEN NDP_USIC ELSE NDP_SUSIC

\* NodeCards::try_new over a slice of at most 64 cards, as the cards it
\* keeps (as_slice): no Input or Output card may follow a None
node_cards_try_new(cards) ==
    IF Len(cards) > MAX_CARDS THEN Err(<<"TooManyCards">>)
    ELSE IF \E j, k \in 1..Len(cards) :
                j < k /\ cards[j] = CARD_NONE /\ cards[k] # CARD_NONE
         THEN Err(<<"CardAfterNone">>)
         ELSE Ok(SelectSeq(cards, LAMBDA c : c # CARD_NONE))

\* sic Configuration::try_new
sic_try_new(kind, transmit_delay, cards) ==
    LET node_cards == node_cards_try_new(cards) IN
    IF ~IsOk(node_cards) THEN node_cards
    ELSE Ok([kind |-> kind, transmit_delay |-> transmit_delay,
             cards |-> node_cards.value])

\* the two bits of card slot j (from 0) in the bytes after raw[3]
SlotBits(raw, j) == (raw[5 + (j \div 4)] \div (4 ^ (j % 4))) % 4

\* sic Configuration::decode.  The loop over the slots stops at the first
\* slot holding 0b11 (InvalidCardType) or holding a card at index 64 or
\* above (cards[..] out of bounds: panic); after the loop raw[1] and raw[2]
\* are indexed without a length check.
sic_decode(kind, raw) ==
    IF raw[1] # SicNdp(kind) THEN Err(<<"InvalidNodeType", raw[1]>>)
    ELSE
    LET slots == IF Len(raw) > 4 THEN 4 * (Len(raw) - 4) ELSE 0
        stops == {j \in 0..(slots - 1) :
                    \/ SlotBits(raw, j) = 3
                    \/ SlotBits(raw, j) # 0 /\ j >= MAX_CARDS}
        first == CHOOSE j \in stops : \A k \in stops : j <= k
        cards == [j \in 1..MAX_CARDS |->
                    IF j - 1 < slots THEN SlotBits(raw, j - 1) ELSE CARD_NONE]
    IN  IF stops # {}
        THEN IF SlotBits(raw, first) = 3 THEN Err(<<"InvalidCardType">>)
             ELSE Panic
        ELSE IF Len(raw) < 3 THEN Panic
        ELSE sic_try_new(kind, FromBe(raw[2], raw[3]), cards)

\* the byte for a chunk with the first card in the highest bit pair
ChunkByte_reversed(cards, lo, hi) ==
    LET Shifted(i) == IF lo + i <= hi THEN cards[lo + i] * (4 ^ (3 - i)) ELSE 0
    IN  Shifted(0) + Shifted(1) + Shifted(2) + Shifted(3)

\* the byte for cards[lo..hi] (a chunk of at most 4): card << 2i, or-ed
ChunkByte(cards, lo, hi) ==
    LET Shifted(i) == IF lo + i <= hi THEN cards[lo + i] * (4 ^ i) ELSE 0
    IN  Shifted(0) + Shifted(1) + Shifted(2) + Shifted(3)

\* sic Configuration::encode: NDP, transmit delay, the count of card
\* bytes, the card bytes.  The loop over the chunks of as_slice() stops
\* before a chunk whose byte is 0 and after a chunk whose top two bits are
\* clear.
sic_encode(c) ==
    LET n      == Len(c.cards)
        chunks == (n + 3) \div 4
        bytes  == [k \in 1..chunks |->
                     ChunkByte(c.cards, 4 * (k - 1) + 1, Min(4 * k, n))]
        stop   == {k \in 1..chunks : bytes[k] \div 64 = 0}
        first  == CHOOSE k \in stop : \A m \in stop : k <= m
        count  == IF stop = {} THEN chunks
                  ELSE IF bytes[first] = 0 THEN first - 1
                  ELSE first
    IN  <<SicNdp(c.kind)>> \o BeBytes(c.transmit_delay) \o <<count>>
            \o SubSeq(bytes, 1, count)

-----------------------------------------------------------------------------
(* NodeSort *)

\* NodeSort::try_decode: raw[0] is matched without a length check
node_sort_try_decode(raw) ==
    IF Len(raw) = 0 THEN Panic
    ELSE IF raw[1] = NDP_CPNODE THEN cp_decode("Cpnode", raw)
    ELSE IF raw[1] = NDP_CPMEGA THEN cp_decode("Cpmega", raw)
    ELSE IF raw[1] = NDP_SMINI  THEN smini_decode(raw)
    ELSE IF raw[1] = NDP_USIC   THEN sic_decode("Usic", raw)
    ELSE IF raw[1] = NDP_SUSIC  THEN sic_decode("Susic", raw)
    ELSE Err(<<"InvalidNodeType", raw[1]>>)

\* NodeSort::encode
node_sort_encode(node_sort) ==
    IF node_sort.kind \in {"Cpnode", "Cpmega"} THEN cp_encode(node_sort)
    ELSE IF node_sort.kind = "Smini" THEN smini_encode(node_sort)
    ELSE sic_encode(node_sort)

-----------------------------------------------------------------------------
(* Payload and Packet *)

PollRequest == [kind |-> "PollRequest"]
ReceiveData(data) == [kind |-> "ReceiveData", data |-> data]
TransmitData(data) == [kind |-> "TransmitData", data |-> data]
Initialization(node_sort) == [kind |-> "Initialization", node_sort |-> node_sort]

Packet(address, payload) == [address |-> address, payload |-> payload]

\* Payload::try_decode of a slice that holds at least the message type
payload_try_decode(raw) ==
    LET rest == Tail(raw) IN
    IF raw[1] = MT_I THEN
        LET node_sort == node_sort_try_decode(rest) IN
        IF IsOk(node_sort) THEN Ok(Initialization(node_sort.value)) ELSE node_sort
    ELSE IF raw[1] = MT_P THEN Ok(PollRequest)
    ELSE IF raw[1] = MT_R THEN
        LET data == data_try_from(rest) IN
        IF IsOk(data) THEN Ok(ReceiveData(data.value)) ELSE Err(<<"BodyTooLong">>)
    ELSE IF raw[1] = MT_T THEN
        LET data == data_try_from(rest) IN
        IF IsOk(data) THEN Ok(TransmitData(data.value)) ELSE Err(<<"BodyTooLong">>)
    ELSE Err(<<"InvalidMessageType", raw[1]>>)

\* Payload::encode: the message type and the body are pushed into a Data
\* (capacity 256) and every push result is dropped
payload_encode(payload) ==
    IF payload.kind = "Initialization" THEN
        LET encoded == node_sort_encode(payload.node_sort) IN
        data_push_each(data_push(<<>>, MT_I), encoded, 1, Len(encoded))
    ELSE IF payload.kind = "PollRequest" THEN data_push(<<>>, MT_P)
    ELSE IF payload.kind = "ReceiveData" THEN
        data_push_each(data_push(<<>>, MT_R), payload.data, 1, Len(payload.data))
    ELSE
        data_push_each(data_push(<<>>, MT_T), payload.data, 1, Len(payload.data))

\* Packet::encode_packet
encode_packet(packet) ==
    packet_push_all(packet_push(<<>>, as_unit_address(packet.address)),
                    payload_encode(packet.payload))

\* TryFrom<RawPacket> for Packet (RawPacket::try_decode)
packet_try_from(raw) ==
    IF Len(raw) < 2 THEN Err(<<"TooShort">>)
    ELSE LET address == try_from_unit_address(raw[1]) IN
         IF ~IsOk(address) THEN Err(<<"InvalidUnitAddress", raw[1]>>)
         ELSE LET payload == payload_try_decode(Tail(raw)) IN
              IF IsOk(payload) THEN Ok(Packet(address.value, payload.value))
              ELSE payload

\* RawPacket::try_decode
try_decode(raw) == packet_try_from(raw)

\* TryFrom<&[u8]> for RawPacket
raw_packet_try_from(value) ==
    IF Len(value) < 2 THEN Err(<<"TooShort">>)
    ELSE IF Len(value) > PACKET_MAX_LEN THEN Err(<<"TooLong">>)
    ELSE Ok(value)

\* RawPacket::body
packet_body(raw) == SubSeq(raw, 3, Len(raw))

\* RawPacket::try_as_raw_frame
try_as_raw_frame(raw) ==
    LET address      == try_from_unit_address(raw[1])
        message_type == check_message_type(raw[2])
    IN  IF ~IsOk(address) THEN address
        ELSE IF ~IsOk(message_type) THEN message_type
        ELSE LET pushed == PushAll(begin(NewFrame, as_unit_address(address.value),
                                         message_type.value), packet_body(raw))
             IN  IF pushed.result = "Panic" THEN Panic
                 ELSE LET finished == finish(pushed.frame) IN
                      IF finished.result = "Full" THEN Panic
                      ELSE Ok(finished.frame)

\* Packet::encode_frame: encode_packet().try_into().expect(..)
encode_frame(packet) ==
    LET framed == try_as_raw_frame(encode_packet(packet)) IN
    IF IsOk(framed) THEN framed ELSE Panic

\* one iteration of the unescaping loop of try_as_packet with every DLE
\* taken as an escape
unescape_byte_every_dle(st, byte) ==
    IF st.too_long THEN st
    ELSE IF byte = DLE THEN [st EXCEPT !.escape = TRUE]
    ELSE IF PACKET_MAX_LEN - Len(st.out) = 0 THEN [st EXCEPT !.too_long = TRUE]
    ELSE [st EXCEPT !.escape = FALSE, !.out = Append(@, byte)]

\* one iteration of the unescaping loop of try_as_packet; too_long is the
\* early return when raw_packet.push fails
unescape_byte(st, byte) ==
    IF st.too_long THEN st
    ELSE IF byte = DLE /\ ~st.escape THEN [st EXCEPT !.escape = TRUE]
    ELSE IF PACKET_MAX_LEN - Len(st.out) = 0 THEN [st EXCEPT !.too_long = TRUE]
    ELSE [st EXCEPT !.escape = FALSE, !.out = Append(@, byte)]

\* the iterations over raw[lo..hi] (the range is halved to keep the
\* evaluation shallow)
RECURSIVE unescape_range(_, _, _, _)
unescape_range(raw, lo, hi, st) ==
    IF lo > hi THEN st
    ELSE IF lo = hi THEN unescape_byte(st, raw[lo])
    ELSE LET mid  == (lo + hi) \div 2
             left == unescape_range(raw, lo, mid, st)
         IN  IF left.too_long THEN left
             ELSE unescape_range(raw, mid + 1, hi, left)

\* From<packet::Error> for DecodeError: InvalidPacket { source }
InvalidPacket(source) == Err(<<"InvalidPacket">> \o source)

\* frame Raw::try_as_packet; the errors of the packet inside (the ? on
\* PacketError::TooShort, PacketError::TooLong and try_decode) come back as
\* DecodeError::InvalidPacket
try_as_packet(f) ==
    IF f.len < 4 THEN Err(<<"TooShort">>)
    ELSE IF SubSeq(f.raw, 1, 2) # <<SYN, SYN>> THEN Err(<<"MissingSynchronisation">>)
    ELSE IF f.raw[3] # STX THEN Err(<<"MissingStart">>)
    ELSE IF f.raw[f.len] # ETX THEN Err(<<"MissingEnd">>)
    ELSE IF f.len < 6 THEN InvalidPacket(<<"TooShort">>)
    ELSE LET unescaped == unescape_range(f.raw, 4, f.len - 1,
                              [escape |-> FALSE, out |-> <<>>, too_long |-> FALSE])
         IN  IF unescaped.too_long THEN InvalidPacket(<<"TooLong">>)
             ELSE LET decoded == try_decode(unescaped.out) IN
                  IF decoded.status = "Err" THEN InvalidPacket(decoded.value)
                  ELSE decoded

-----------------------------------------------------------------------------
(* Values of the variables a specification does not use *)

IdleRx ==
    /\ frame = NewFrame /\ result = "None" /\ fed = <<>>
    /\ shadow = NewFrame /\ shadowResult = "None" /\ armed = FALSE /\ script = <<>>

IdleCodec == cin = <<>> /\ cout = <<>> /\ cop = <<>>

IdleConn == conn = <<>> /\ stream = <<>> /\ consumed = <<>> /\ returned = <<>>

IdleCtl == nodes = <<>> /\ ctl = <<>> /\ wire = <<>>

IdleLib == obj = <<>> /\ ret = <<>> /\ calls = <<>>

IdleTools == mon = <<>> /\ sim = <<>> /\ fw = <<>> /\ hub = <<>>

-----------------------------------------------------------------------------
(* SpecReceive: a fresh frame::Raw fed every sequence of at most MaxFed     *)
(* bytes drawn from Alphabet (the four special bytes and an ordinary one)   *)

MaxFed == 7

Alphabet == {SYN, STX, ETX, DLE, UA_OFFSET}

InitReceive ==
    /\ IdleRx /\ IdleCodec /\ IdleConn /\ IdleCtl /\ IdleLib /\ IdleTools

Receive(b) ==
    /\ Len(fed) < MaxFed
    /\ LET r == receive(frame, b) IN
        /\ frame' = r.frame
        /\ result' = r.result
    /\ fed' = Append(fed, b)
    /\ UNCHANGED <<shadow, shadowResult, armed, script>>
    /\ UNCHANGED <<codecVars, connVars, ctlVars, libVars, toolVars>>

NextReceive == \E b \in Alphabet : Receive(b)

SpecReceive == InitReceive /\ [][NextReceive]_vars

-----------------------------------------------------------------------------
(* The frame grammar of the specification, as a matcher on the bytes fed *)

\* s[i..] is (body-byte | DLE any)* ETX, a body-byte being none of DLE, ETX
\* nor a byte of forbidden
RECURSIVE MatchBody(_, _, _)
MatchBody(s, i, forbidden) ==
    IF i > Len(s) THEN FALSE
    ELSE IF s[i] = ETX THEN i = Len(s)
    ELSE IF s[i] = DLE THEN i + 1 <= Len(s) /\ MatchBody(s, i + 2, forbidden)
    ELSE IF s[i] \in forbidden THEN FALSE
    ELSE MatchBody(s, i + 1, forbidden)

\* s[start..] is SYN+ STX (body-byte | DLE any)* ETX
MatchFrame(s, start, forbidden) ==
    \E k \in start..Len(s) :
        /\ \A j \in start..k : s[j] = SYN
        /\ k + 1 <= Len(s)
        /\ s[k + 1] = STX
        /\ MatchBody(s, k + 2, forbidden)

\* after a call that did not complete a frame the machine either goes on
\* receiving (Ok(false), not Received) or is back at the start, empty
ReceptiveOrReset ==
    \/ result = "None"
    \/ result = "OkFalse" /\ frame.receive_state # "Received"
    \/ /\ result \in {"TooShort", "TooLong"}
       /\ frame.receive_state = "WaitingForSyn"
       /\ frame.len = 0

C9_ReceivedLatches ==
    [][frame.receive_state = "Received"
        => (frame' = frame /\ result' = "AlreadyComplete")]_vars

\* C9 witness: a byte was fed to a completed frame
C9_Witness ==
    /\ frame.receive_state = "Received"
    /\ result = "AlreadyComplete"
    /\ Len(fed) > frame.len

-----------------------------------------------------------------------------
(* SpecResync: a frame::Raw plays a script: a prefix that ends in an error  *)
(* or is followed by a reset() call, then one well-formed frame.  From the  *)
(* error / reset on, a Raw::new() made at that moment (shadow) is fed the   *)
(* same bytes.                                                              *)

MaxPartial == 3

\* an ordinary byte (none of SYN, STX, DLE, ETX) used to fill bodies
FILL == UA_OFFSET

\* a well-formed frame carrying the packet [UA_OFFSET, MT_T, body...]
WellFormed(body) ==
    finish(PushAll(begin(NewFrame, UA_OFFSET, MT_T), body).frame).frame.raw

Prefixes ==
    {<<SYN, SYN, STX>> \o Repeat(FILL, k) : k \in 0..MaxPartial}
    \cup { <<>>, <<SYN>>,
           <<SYN, SYN, STX, UA_OFFSET, ETX>>,
           <<SYN, SYN, STX, UA_OFFSET, MT_P, ETX>>,
           <<SYN, SYN, STX>> \o Repeat(FILL, PACKET_MAX_LEN + 1) }

GoodBodies ==
    {Repeat(b, n) : b \in {FILL, DLE}, n \in {0, 1, DATA_MAX_LEN - 1, DATA_MAX_LEN}}

InitResync ==
    /\ frame = NewFrame /\ result = "None" /\ fed = <<>>
    /\ shadow = NewFrame /\ shadowResult = "None" /\ armed = FALSE
    /\ script \in [pre : Prefixes, reset : BOOLEAN, good : {WellFormed(b) : b \in GoodBodies}]
    /\ IdleCodec /\ IdleConn /\ IdleCtl /\ IdleLib /\ IdleTools

IsReceiveError(r) == r \in {"TooShort", "TooLong"}

\* one Raw::receive call on frame and, once armed, on shadow
Feed(b) ==
    LET r  == receive(frame, b)
        sr == receive(shadow, b)
    IN  /\ frame' = r.frame
        /\ result' = r.result
        /\ fed' = Append(fed, b)
        /\ armed' = (armed \/ IsReceiveError(r.result))
        /\ shadowResult' = IF armed THEN sr.result ELSE "None"
        /\ shadow' = IF IsReceiveError(r.result) THEN NewFrame
                     ELSE IF armed THEN sr.frame ELSE shadow

PlayPrefix ==
    /\ script.pre # <<>>
    /\ Feed(Head(script.pre))
    /\ script' = [script EXCEPT !.pre = Tail(script.pre)]
    /\ UNCHANGED <<codecVars, connVars, ctlVars, libVars, toolVars>>

CallReset ==
    /\ script.pre = <<>>
    /\ script.reset
    /\ frame' = reset(frame)
    /\ result' = "None"
    /\ armed' = TRUE
    /\ shadow' = NewFrame
    /\ shadowResult' = "None"
    /\ script' = [script EXCEPT !.reset = FALSE]
    /\ UNCHANGED <<fed, codecVars, connVars, ctlVars, libVars, toolVars>>

PlayFrame ==
    /\ script.pre = <<>>
    /\ ~script.reset
    /\ script.good # <<>>
    /\ result # "Panic"
    /\ Feed(Head(script.good))
    /\ script' = [script EXCEPT !.good = Tail(script.good)]
    /\ UNCHANGED <<codecVars, connVars, ctlVars, libVars, toolVars>>

NextResync == PlayPrefix \/ CallReset \/ PlayFrame

SpecResync == InitResync /\ [][NextResync]_vars

\* C1: after receive returned TooShort or TooLong, or after reset(), the
\* Raw answers every later byte as a freshly constructed Raw does and stores
\* the same bytes in the same state: the next well-formed frame gets
\* Ok(false) for every byte and Ok(true) on its ETX
C1_ResetIsFresh ==
    (armed /\ shadowResult # "None") =>
        /\ result = shadowResult
        /\ frame.raw = shadow.raw
        /\ frame.receive_state = shadow.receive_state

-----------------------------------------------------------------------------
(* SpecCodec: a value (a Packet or a RawPacket) drawn from bounded families *)
(* is taken through the conversions.  cin is the value drawn, cout the      *)
(* current value, cop the conversions applied so far.  A conversion that    *)
(* fails leaves an "Err" or a "Panic" value, on which nothing applies.      *)

MaxOps == 3

Val(type, value) == [type |-> type, value |-> value]

\* the value a conversion's result leaves
Outcome(type, r) ==
    IF r.status = "Ok" THEN Val(type, r.value)
    ELSE IF r.status = "Err" THEN Val("Err", r.value)
    ELSE Val("Panic", <<>>)

SpecialBytes == {SYN, STX, ETX, DLE}

DataSamples ==
    {<<>>, <<DLE, DLE>>, <<DLE, ETX, SYN, STX, FILL, DLE>>}
        \cup {<<b>> : b \in SpecialBytes \cup {FILL}}
        \cup {Repeat(b, n) : b \in {FILL, DLE, SYN},
                             n \in {DATA_MAX_LEN - 1, DATA_MAX_LEN}}

NodeSortSamples ==
    {r.value : r \in {
        cp_try_new("Cpnode", 0, 0, 1, 1),
        cp_try_new("Cpnode", 515, 258, 2, 16),
        cp_try_new("Cpmega", 1, 0, 0, 0),
        cp_try_new("Cpmega", 65535, 65535, 12, 12),
        smini_try_new(0, Repeat(0, 6)),
        smini_try_new(300, <<3, 0, 0, 0, 1, 128>>),
        sic_try_new("Usic", 0, <<>>),
        sic_try_new("Usic", 5, <<CARD_INPUT, CARD_OUTPUT, CARD_OUTPUT, CARD_NONE>>),
        sic_try_new("Susic", 5, <<CARD_INPUT, CARD_OUTPUT, CARD_OUTPUT, CARD_INPUT>>),
        sic_try_new("Susic", 0, Repeat(CARD_OUTPUT, MAX_CARDS))}}

PayloadSamples ==
    {PollRequest}
        \cup {ReceiveData(d) : d \in DataSamples}
        \cup {TransmitData(d) : d \in DataSamples}
        \cup {Initialization(n) : n \in NodeSortSamples}

PacketSamples ==
    {Packet(a, pl) : a \in {0, MAX_NODE_ADDRESS}, pl \in PayloadSamples}

\* Initialization bodies: every prefix of an encoded NodeSort, and card
\* bytes beyond the 64 slots
InitializationBodies ==
    UNION {{SubSeq(e, 1, k) : k \in 0..Len(e)} :
                e \in {node_sort_encode(n) : n \in NodeSortSamples}}
        \cup {<<NDP_USIC, 0, 0, 17>> \o Repeat(b, 17) : b \in {0, 85, SYN}}

RawPacketSamples ==
    {r.value : r \in {raw_packet_try_from(v) : v \in
        {<<ua, mt>> \o d : ua \in {UA_OFFSET, MAX_UNIT_ADDRESS},
                           mt \in {MT_I, MT_P, MT_R, MT_T},
                           d \in DataSamples}
        \cup {<<UA_OFFSET, MT_I>> \o b : b \in InitializationBodies}
        \cup {<<UA_OFFSET - 1, MT_P>>, <<MAX_UNIT_ADDRESS + 1, MT_P>>,
              <<UA_OFFSET, FILL>>}}}

InitCodec ==
    /\ \/ cin \in {Val("Packet", p) : p \in PacketSamples}
       \/ cin \in {Val("RawPacket", r) : r \in RawPacketSamples}
    /\ cout = cin
    /\ cop = <<>>
    /\ IdleRx /\ IdleConn /\ IdleCtl /\ IdleLib /\ IdleTools

Convert(name, value) ==
    /\ Len(cop) < MaxOps
    /\ cout' = value
    /\ cop' = Append(cop, name)
    /\ UNCHANGED <<cin, rxVars, connVars, ctlVars, libVars, toolVars>>

EncodePacket ==
    /\ cout.type = "Packet"
    /\ Convert("encode_packet", Val("RawPacket", encode_packet(cout.value)))

EncodeFrame ==
    /\ cout.type = "Packet"
    /\ Convert("encode_frame", Outcome("RawFrame", encode_frame(cout.value)))

TryDecode ==
    /\ cout.type = "RawPacket"
    /\ Convert("try_decode", Outcome("Packet", try_decode(cout.value)))

TryAsRawFrame ==
    /\ cout.type = "RawPacket"
    /\ Convert("try_as_raw_frame", Outcome("RawFrame", try_as_raw_frame(cout.value)))

TryAsPacket ==
    /\ cout.type = "RawFrame"
    /\ Convert("try_as_packet", Outcome("Packet", try_as_packet(cout.value)))

NextCodec ==
    \/ EncodePacket
    \/ EncodeFrame
    \/ TryDecode
    \/ TryAsRawFrame
    \/ TryAsPacket

SpecCodec == InitCodec /\ [][NextCodec]_vars

\* the RawPacket drawn has a valid unit address and a valid message type
ValidHeader(raw) ==
    IsOk(try_from_unit_address(raw[1])) /\ IsOk(check_message_type(raw[2]))

\* the number of bytes of a sequence that Raw::push escapes
EscapedCount(bytes) == Cardinality({i \in 1..Len(bytes) : NeedsEscape(bytes[i])})

\* C2 as stated: every valid Packet p, up to ReceiveData / TransmitData with
\* 256 data bytes, comes back from Packet::try_from(p.encode_packet()) and
\* from p.encode_frame().try_as_packet()
C2_RoundTrip ==
    (cin.type = "Packet" /\ cop \in {<<"encode_packet", "try_decode">>,
                                     <<"encode_frame", "try_as_packet">>})
        => (cout.type = "Packet" /\ cout.value = cin.value)

\* C5: a RawPacket with a valid unit address, message type 'R' or 'T' and a
\* body of 0 to 256 arbitrary bytes, framed by try_as_raw_frame and unframed
\* by try_as_packet, gives a packet whose data is the body
C5_FramingKeepsBody ==
    (/\ cin.type = "RawPacket"
     /\ IsOk(try_from_unit_address(cin.value[1]))
     /\ cin.value[2] \in {MT_R, MT_T}
     /\ cop = <<"try_as_raw_frame", "try_as_packet">>)
        => /\ cout.type = "Packet"
           /\ cout.value.payload.kind
                = (IF cin.value[2] = MT_R THEN "ReceiveData" ELSE "TransmitData")
           /\ cout.value.payload.data = packet_body(cin.value)

C5_Witness ==
    /\ cin.type = "RawPacket"
    /\ cin.value[2] = MT_T
    /\ cop = <<"try_as_raw_frame", "try_as_packet">>
    /\ Len(packet_body(cin.value)) = DATA_MAX_LEN
    /\ packet_body(cin.value)[1] = DLE
    /\ cout.type = "Packet"

\* C6: for a RawPacket of 2 to 258 bytes with a valid unit address and
\* message type, try_as_raw_frame does not panic and the frame's length is
\* 6 + body length + the number of body bytes that are SYN, STX, DLE or ETX,
\* at most 5 + 2 * body length + 1 and at most 518
C6_FrameLength ==
    (/\ cin.type = "RawPacket"
     /\ ValidHeader(cin.value)
     /\ cop = <<"try_as_raw_frame">>)
        => LET body_len == Len(packet_body(cin.value)) IN
           /\ cout.type = "RawFrame"
           /\ cout.value.len = 6 + body_len + EscapedCount(packet_body(cin.value))
           /\ cout.value.len = Len(cout.value.raw)
           /\ cout.value.len <= 5 + 2 * body_len + 1
           /\ cout.value.len <= FRAME_MAX_LEN

C6_Witness ==
    /\ cin.type = "RawPacket"
    /\ cop = <<"try_as_raw_frame">>
    /\ Len(cin.value) = PACKET_MAX_LEN
    /\ cout.type = "RawFrame"
    /\ cout.value.len = FRAME_MAX_LEN

\* C7 as stated: decoding a RawPacket of 2 to 258 bytes, or a frame, never
\* panics, and an Initialization packet with an empty body is rejected with
\* Err(TooShort)
C7_DecodingNeverPanics ==
    (cop # <<>> /\ cop[Len(cop)] \in {"try_decode", "try_as_packet"})
        => /\ cout.type # "Panic"
           /\ (/\ cin.type = "RawPacket"
               /\ cop = <<"try_decode">>
               /\ cin.value[2] = MT_I
               /\ IsOk(try_from_unit_address(cin.value[1]))
               /\ Len(cin.value) = 2)
                  => (cout.type = "Err" /\ cout.value = <<"TooShort">>)

-----------------------------------------------------------------------------
(* SpecConnection: Connection::receive reads a byte stream made of          *)
(* segments (script): well-formed frames, non-SYN noise, frames too short   *)
(* and too long.  conn.pc is the caller's position: "idle" (no receive      *)
(* call in progress), "awaiting" (inside receive, at read_u8().await),      *)
(* "failed" (receive returned the I/O error) or "panicked".  shadow is a    *)
(* second Connection that reads the same bytes and is never cancelled.      *)

MaxSegments == 2

Segment(kind, bytes) == [kind |-> kind, bytes |-> bytes]

NOISE == <<ETX, FILL, DLE, STX>>

Segments ==
    {Segment("good", WellFormed(b)) : b \in {<<>>, <<DLE>>, Repeat(FILL, DATA_MAX_LEN)}}
        \cup {Segment("noise", NOISE)}
        \cup {Segment("short", <<SYN, SYN, STX, ETX>>),
              Segment("short", <<SYN, SYN, STX, FILL, ETX>>)}
        \cup {Segment("long", <<SYN, SYN, STX>> \o Repeat(FILL, PACKET_MAX_LEN + 1)
                                \o <<ETX>>)}

Scripts == UNION {[1..n -> Segments] : n \in 1..MaxSegments}

RECURSIVE Flatten(_)
Flatten(segments) ==
    IF segments = <<>> THEN <<>>
    ELSE Head(segments).bytes \o Flatten(Tail(segments))

NewConnection == [frame |-> NewFrame, pc |-> "idle", returned |-> <<>>]

\* a turn of the loop that returns a copy of the completed frame and keeps
\* it in the connection
connection_receive_byte_keeps_frame(c, byte) ==
    LET r == receive(c.frame, byte) IN
    IF r.result \in {"AlreadyComplete", "Panic"}
    THEN [c EXCEPT !.pc = "panicked"]
    ELSE IF r.result = "OkTrue"
         THEN [c EXCEPT !.frame = r.frame, !.pc = "idle",
                        !.returned = Append(@, r.frame.raw)]
         ELSE [c EXCEPT !.frame = r.frame]

\* one turn of the loop of Connection::receive on the byte read
connection_receive_byte(c, byte) ==
    LET r == receive(c.frame, byte) IN
    IF r.result \in {"AlreadyComplete", "Panic"}
    THEN [c EXCEPT !.pc = "panicked"]
    ELSE IF r.result = "OkTrue"
         THEN [c EXCEPT !.frame = NewFrame, !.pc = "idle",
                        !.returned = Append(@, r.frame.raw)]
         ELSE [c EXCEPT !.frame = r.frame]

\* dropping the receive future with the frame half read thrown away
drop_and_forget(c) == [c EXCEPT !.pc = "idle", !.frame = NewFrame]

\* dropping the receive future at read_u8().await: self.frame is untouched
drop_receive(c) == [c EXCEPT !.pc = "idle"]

InitConnection ==
    /\ script \in Scripts
    /\ stream = Flatten(script)
    /\ conn = NewConnection
    /\ shadow = [NewConnection EXCEPT !.pc = "awaiting"]
    /\ consumed = 0
    /\ returned = <<>>
    /\ frame = NewFrame /\ result = "None" /\ fed = <<>>
    /\ shadowResult = "None" /\ armed = FALSE
    /\ IdleCodec /\ IdleCtl /\ IdleLib /\ IdleTools

ConnUnchanged == UNCHANGED <<frame, result, fed, shadowResult, armed, script,
                             codecVars, ctlVars, libVars, toolVars>>

\* the caller calls receive(): the call reaches read_u8().await
CallReceive ==
    /\ conn.pc = "idle"
    /\ conn' = [conn EXCEPT !.pc = "awaiting"]
    /\ UNCHANGED <<stream, consumed, returned, shadow>>
    /\ ConnUnchanged

\* read_u8() yields the next byte; the loop runs to the next await or returns
ReadByte ==
    /\ conn.pc = "awaiting"
    /\ stream # <<>>
    /\ conn' = connection_receive_byte(conn, Head(stream))
    /\ returned' = conn'.returned
    /\ shadow' = LET after == connection_receive_byte(shadow, Head(stream)) IN
                 IF after.pc = "idle" THEN [after EXCEPT !.pc = "awaiting"] ELSE after
    /\ stream' = Tail(stream)
    /\ consumed' = consumed + 1
    /\ ConnUnchanged

\* the stream ends: read_u8() gives an error and receive returns it
ReadError ==
    /\ conn.pc = "awaiting"
    /\ stream = <<>>
    /\ conn' = [conn EXCEPT !.pc = "failed"]
    /\ UNCHANGED <<stream, consumed, returned, shadow>>
    /\ ConnUnchanged

\* the caller drops the receive future (tokio::select! took another branch)
Cancel ==
    /\ conn.pc = "awaiting"
    /\ conn' = drop_receive(conn)
    /\ UNCHANGED <<stream, consumed, returned, shadow>>
    /\ ConnUnchanged

NextConnection ==
    \/ CallReceive
    \/ ReadByte
    \/ ReadError
    \/ Cancel

SpecConnection == InitConnection /\ [][NextConnection]_vars

\* the well-formed frames of the script, in order
GoodFrames ==
    LET good == SelectSeq(script, LAMBDA seg : seg.kind = "good")
    IN  [i \in 1..Len(good) |-> good[i].bytes]

IsPrefix(a, b) == Len(a) <= Len(b) /\ a = SubSeq(b, 1, Len(a))

\* C4 as stated: the receive calls return exactly the well-formed frames of
\* the stream, each once and in order; noise and malformed frames never
\* cause a later well-formed frame to be lost or withheld
C4_ExactlyTheGoodFrames ==
    /\ IsPrefix(returned, GoodFrames)
    /\ (stream = <<>> /\ conn.pc # "panicked") => returned = GoodFrames

\* C8: whatever receive calls were cancelled at read_u8().await, the bytes
\* consumed stay in the connection's receive state and the frames returned
\* are those of a connection that read the same bytes without cancellation
C8_CancelKeepsBytes ==
    /\ conn.frame = shadow.frame
    /\ returned = shadow.returned

C8_Witness ==
    /\ conn.pc = "idle"
    /\ conn.frame.receive_state = "ReceivingEscaped"
    /\ Len(returned) = 1
    /\ consumed > 0

-----------------------------------------------------------------------------
(* SpecController: the polling loop of the controller's run_connection over *)
(* the nodes of State, with the GUI adding nodes and resetting the State    *)
(* between two node visits (the State's mutex is held over a visit).        *)
(* nodes[a] is the Option<Node> at index a; ctl is the loop's position;     *)
(* wire is the log of the packets sent, of what each receive gave and of    *)
(* the GUI's resets.                                                        *)

MaxPolls  == 3
MaxResets == 1

\* the addresses the GUI adds nodes at: the first and the last index of
\* State::nodes (every index between them stays None)
NodeAddrs == {0, MAX_NODE_ADDRESS}

\* no address: the value of from when no packet came
NoAddress == MAX_NODE_ADDRESS + 1

NoNode == [present |-> FALSE]

\* the NodeSort the GUI gives the node it adds at address a
CtlSort(a) ==
    IF a = 0 THEN cp_try_new("Cpnode", 0, 0, 1, 1).value
             ELSE cp_try_new("Cpmega", 1, 0, 0, 2).value

\* Data::new(len): len zero bytes
data_new(len) == Repeat(0, len)

\* Node::new (and From<file::Node>), for the CPNODE / CPMEGA sorts
node_new(address, sort) ==
    [present |-> TRUE, address |-> address, sort |-> sort,
     to_initialise |-> TRUE,
     inputs |-> data_new(sort.input_bytes), outputs |-> data_new(sort.output_bytes)]

\* a timeout arm that only warns
on_timeout_only_warns(node) == node

\* run_connection, arm Err(_) of the timeout: the node is marked
on_timeout(node) == [node EXCEPT !.to_initialise = TRUE]

\* run_connection, arm Ok(packet) of try_as_packet
on_packet(node, packet) ==
    IF packet.address = node.address
    THEN IF packet.payload.kind = "ReceiveData"
         THEN [node |-> [node EXCEPT !.to_initialise = FALSE,
                                     !.inputs = packet.payload.data],
               panic |-> FALSE]
         ELSE [node |-> node, panic |-> FALSE]
    ELSE [node |-> node, panic |-> TRUE]

Sent(node, packet) ==
    [dir |-> "send", address |-> node.address, kind |-> packet.payload.kind,
     packet |-> packet, sort |-> node.sort]

WireReceived(node, kind, from) ==
    [dir |-> "recv", address |-> node.address, kind |-> kind, from |-> from]

ResetMark == [dir |-> "gui", address |-> NoAddress, kind |-> "reset"]

\* the frames a receive can give the controller
Replies ==
    {encode_frame(Packet(a, pl)).value :
        a \in NodeAddrs, pl \in {ReceiveData(<<1>>), TransmitData(<<1>>)}}
        \cup {[NewFrame EXCEPT !.raw = <<SYN, SYN, STX, UA_OFFSET, FILL, ETX>>,
                               !.len = 6, !.receive_state = "Received"]}

\* what the loop sends before it waits for the answer
PollSends(node) ==
    (IF node.to_initialise
     THEN <<Sent(node, Packet(node.address, Initialization(node.sort)))>>
     ELSE <<>>)
        \o <<Sent(node, Packet(node.address, PollRequest))>>

TransmitSend(node) ==
    <<Sent(node, Packet(node.address, TransmitData(node.outputs)))>>

InitController ==
    /\ nodes = [a \in NodeAddrs |-> NoNode]
    /\ ctl = [pc |-> "tick", i |-> 0, polls |-> 0, resets |-> 0]
    /\ wire = <<>>
    /\ IdleRx /\ IdleCodec /\ IdleConn /\ IdleLib /\ IdleTools

CtlUnchanged == UNCHANGED <<rxVars, codecVars, connVars, libVars, toolVars>>

\* the position after index i: the next index that can hold a node, or the
\* end of the for loop
AfterNode(c) ==
    IF c.i = MAX_NODE_ADDRESS THEN [c EXCEPT !.pc = "tick", !.i = 0]
    ELSE [c EXCEPT !.i = MAX_NODE_ADDRESS]

\* period.tick().await completes: the for loop starts
Tick ==
    /\ ctl.pc = "tick"
    /\ ctl' = [ctl EXCEPT !.pc = "polling", !.i = 0]
    /\ UNCHANGED <<nodes, wire>>
    /\ CtlUnchanged

\* nodes[i] is None
SkipNode ==
    /\ ctl.pc = "polling"
    /\ ~nodes[ctl.i].present
    /\ ctl' = AfterNode(ctl)
    /\ UNCHANGED <<nodes, wire>>
    /\ CtlUnchanged

Polling ==
    /\ ctl.pc = "polling"
    /\ nodes[ctl.i].present
    /\ ctl.polls < MaxPolls

\* the first send of the visit fails: handle_error exits the process
SendFails ==
    /\ Polling
    /\ ctl' = [ctl EXCEPT !.pc = "exited"]
    /\ UNCHANGED <<nodes, wire>>
    /\ CtlUnchanged

\* no frame within TIMEOUT
PollTimesOut ==
    /\ Polling
    /\ LET node  == nodes[ctl.i]
           after == on_timeout(node)
       IN  /\ nodes' = [nodes EXCEPT ![ctl.i] = after]
           /\ wire' = wire \o PollSends(node)
                          \o <<WireReceived(node, "Timeout", NoAddress)>>
                          \o TransmitSend(after)
    /\ ctl' = [AfterNode(ctl) EXCEPT !.polls = ctl.polls + 1]
    /\ CtlUnchanged

\* connection.receive() gives an I/O error: handle_error exits the process
ReceiveFails ==
    /\ Polling
    /\ wire' = wire \o PollSends(nodes[ctl.i])
                    \o <<WireReceived(nodes[ctl.i], "IoError", NoAddress)>>
    /\ ctl' = [ctl EXCEPT !.pc = "exited", !.polls = ctl.polls + 1]
    /\ UNCHANGED nodes
    /\ CtlUnchanged

\* connection.receive() gives a frame
PollAnswered ==
    /\ Polling
    /\ \E reply \in Replies :
        LET node    == nodes[ctl.i]
            decoded == try_as_packet(reply)
        IN  IF ~IsOk(decoded)
            THEN /\ wire' = wire \o PollSends(node)
                                 \o <<WireReceived(node, "BadFrame", NoAddress)>>
                                 \o TransmitSend(node)
                 /\ ctl' = [AfterNode(ctl) EXCEPT !.polls = ctl.polls + 1]
                 /\ UNCHANGED nodes
            ELSE LET packet == decoded.value
                     after  == on_packet(node, packet)
                     got    == WireReceived(node, packet.payload.kind, packet.address)
                 IN  IF after.panic
                     THEN /\ wire' = wire \o PollSends(node) \o <<got>>
                          /\ ctl' = [ctl EXCEPT !.pc = "panicked",
                                                !.polls = ctl.polls + 1]
                          /\ UNCHANGED nodes
                     ELSE /\ wire' = wire \o PollSends(node) \o <<got>>
                                          \o TransmitSend(after.node)
                          /\ ctl' = [AfterNode(ctl) EXCEPT !.polls = ctl.polls + 1]
                          /\ nodes' = [nodes EXCEPT ![ctl.i] = after.node]
    /\ CtlUnchanged

\* the GUI's "add node" on a free address
GuiAddNode ==
    /\ ctl.pc \in {"tick", "polling"}
    /\ \E a \in NodeAddrs :
        /\ ~nodes[a].present
        /\ nodes' = [nodes EXCEPT ![a] = node_new(a, CtlSort(a))]
    /\ UNCHANGED <<ctl, wire>>
    /\ CtlUnchanged

\* the GUI's "new": State::reset
GuiReset ==
    /\ ctl.pc \in {"tick", "polling"}
    /\ ctl.resets < MaxResets
    /\ \E a \in NodeAddrs : nodes[a].present
    /\ nodes' = [a \in NodeAddrs |-> NoNode]
    /\ wire' = Append(wire, ResetMark)
    /\ ctl' = [ctl EXCEPT !.resets = ctl.resets + 1]
    /\ CtlUnchanged

NextController ==
    \/ Tick
    \/ SkipNode
    \/ SendFails
    \/ PollTimesOut
    \/ ReceiveFails
    \/ PollAnswered
    \/ GuiAddNode
    \/ GuiReset

SpecController == InitController /\ [][NextController]_vars

\* the PollRequests sent to address a
PollsTo(a) ==
    {k \in 1..Len(wire) : /\ wire[k].dir = "send"
                          /\ wire[k].kind = "PollRequest"
                          /\ wire[k].address = a}

\* the last State::reset before position k (0 when there is none)
LastReset(k) ==
    LET marks == {j \in 1..(k - 1) : wire[j].dir = "gui"} IN
    IF marks = {} THEN 0 ELSE CHOOSE j \in marks : \A m \in marks : m <= j

\* the poll of the same node before the poll at k (0 when k is its first)
PreviousPoll(a, k) ==
    LET before == {j \in PollsTo(a) : j < k /\ j > LastReset(k)} IN
    IF before = {} THEN 0 ELSE CHOOSE j \in before : \A m \in before : m <= j

\* position k - 1 holds an Initialization for the node polled at k, with
\* that node's NodeSort
InitializationPrecedes(k) ==
    /\ k > 1
    /\ wire[k - 1].dir = "send"
    /\ wire[k - 1].kind = "Initialization"
    /\ wire[k - 1].address = wire[k].address
    /\ wire[k - 1].packet.payload.node_sort = wire[k].sort

TimedOut(j) == wire[j + 1].kind = "Timeout"

Answered(a, j) == wire[j + 1].kind = "ReceiveData" /\ wire[j + 1].from = a

\* C10: for every node, its first PollRequest, and the first PollRequest
\* after a poll of it that timed out, is immediately preceded on the wire by
\* an Initialization carrying the node's NodeSort, and an Initialization
\* keeps preceding each poll until a ReceiveData packet from the node's
\* address is received
C10_InitializationBeforePoll ==
    \A a \in NodeAddrs : \A k \in PollsTo(a) :
        LET j == PreviousPoll(a, k) IN
        (\/ j = 0
         \/ TimedOut(j)
         \/ InitializationPrecedes(j) /\ ~Answered(a, j))
            => InitializationPrecedes(k)

\* a poll after a timed-out poll of an initialised node, and one after an
\* unanswered Initialization
C10_Witness ==
    \E a \in NodeAddrs : \E k \in PollsTo(a) :
        LET j == PreviousPoll(a, k) IN
        /\ j # 0
        /\ TimedOut(j)
        /\ ~InitializationPrecedes(j)
        /\ InitializationPrecedes(k)
        /\ \E h \in PollsTo(a) : h < j /\ Answered(a, h)

-----------------------------------------------------------------------------
(* NodeCards as the struct it is: cards[0..64], input_cards, output_cards *)

MaxPushes == 3

\* NodeCards::default()
node_cards_default ==
    [cards |-> Repeat(CARD_NONE, MAX_CARDS), input_cards |-> 0, output_cards |-> 0]

\* NodeCards::len
node_cards_len(nc) == nc.input_cards + nc.output_cards

\* NodeCards::as_slice
node_cards_as_slice(nc) == SubSeq(nc.cards, 1, node_cards_len(nc))

\* try_push that counts the card before it takes the index to write at
try_push_counts_first(nc, card) ==
    IF node_cards_len(nc) >= MAX_CARDS THEN [obj |-> nc, result |-> Err(<<>>)]
    ELSE LET counted == [nc EXCEPT
                 !.input_cards  = IF card = CARD_INPUT  THEN @ + 1 ELSE @,
                 !.output_cards = IF card = CARD_OUTPUT THEN @ + 1 ELSE @]
             index == node_cards_len(counted)
         IN  [obj |-> IF index < MAX_CARDS
                      THEN [counted EXCEPT !.cards[index + 1] = card]
                      ELSE counted,
              result |-> Ok(<<>>)]

\* NodeCards::try_push: the card is written at index len() taken before the
\* counters move, and a None card moves no counter
try_push(nc, card) ==
    LET index == node_cards_len(nc) IN
    IF index >= MAX_CARDS THEN [obj |-> nc, result |-> Err(<<>>)]
    ELSE [obj |-> [nc EXCEPT
                     !.input_cards  = IF card = CARD_INPUT  THEN @ + 1 ELSE @,
                     !.output_cards = IF card = CARD_OUTPUT THEN @ + 1 ELSE @,
                     !.cards[index + 1] = card],
          result |-> Ok(<<>>)]

\* one turn of the loop of NodeCards::try_new
node_cards_new_card(st, card) ==
    IF st.failed THEN st
    ELSE IF card = CARD_NONE THEN [st EXCEPT !.none_seen = TRUE]
    ELSE IF st.none_seen THEN [st EXCEPT !.failed = TRUE]
    ELSE [st EXCEPT !.node_cards = try_push(@, card).obj]

\* the loop of NodeCards::try_new over cards[lo..hi]
RECURSIVE node_cards_new_range(_, _, _, _)
node_cards_new_range(st, cards, lo, hi) ==
    IF lo > hi THEN st
    ELSE IF lo = hi THEN node_cards_new_card(st, cards[lo])
    ELSE LET mid  == (lo + hi) \div 2
             left == node_cards_new_range(st, cards, lo, mid)
         IN  IF left.failed THEN left
             ELSE node_cards_new_range(left, cards, mid + 1, hi)

\* NodeCards::try_new, as the struct it builds
node_cards_try_new_struct(cards) ==
    IF Len(cards) > MAX_CARDS THEN Err(<<"TooManyCards">>)
    ELSE LET st == node_cards_new_range(
                     [node_cards |-> node_cards_default, none_seen |-> FALSE,
                      failed |-> FALSE], cards, 1, Len(cards))
         IN  IF st.failed THEN Err(<<"CardAfterNone">>) ELSE Ok(st.node_cards)

NodeCardKinds == {CARD_NONE, CARD_INPUT, CARD_OUTPUT}

\* slices given to NodeCards::try_new: every slice of up to 2 cards, and
\* slices that fill or nearly fill the 64 slots
CardSlices ==
    UNION {[1..n -> NodeCardKinds] : n \in 0..2}
    \cup {Repeat(CARD_INPUT, n) : n \in (MAX_CARDS - 2)..(MAX_CARDS + 1)}
    \cup {Repeat(CARD_OUTPUT, MAX_CARDS - 1) \o <<CARD_NONE>>,
          <<CARD_NONE>> \o Repeat(CARD_NONE, MAX_CARDS - 1),
          Repeat(CARD_INPUT, MAX_CARDS - 1) \o <<CARD_NONE, CARD_OUTPUT>>}

InitCards ==
    /\ \E slice \in CardSlices :
          /\ IsOk(node_cards_try_new_struct(slice))
          /\ obj = node_cards_try_new_struct(slice).value
    /\ ret = Ok(<<>>)
    /\ calls = <<>>
    /\ IdleRx /\ IdleCodec /\ IdleConn /\ IdleCtl /\ IdleTools

\* node_cards.try_push(card)
TryPush(card) ==
    /\ Len(calls) < MaxPushes
    /\ obj' = try_push(obj, card).obj
    /\ ret' = try_push(obj, card).result
    /\ calls' = Append(calls, card)
    /\ UNCHANGED <<rxVars, codecVars, connVars, ctlVars, toolVars>>

NextCards == \E card \in NodeCardKinds : TryPush(card)

SpecCards == InitCards /\ [][NextCards]_vars

\* C11: a NodeCards built by try_new and changed by try_push holds
\* len = input_cards + output_cards <= 64 Input/Output cards, input_cards of
\* them Input, followed only by None cards
C11_CardsThenNone ==
    LET len == obj.input_cards + obj.output_cards IN
    /\ len <= MAX_CARDS
    /\ Len(obj.cards) = MAX_CARDS
    /\ \A j \in 1..MAX_CARDS :
          IF j <= len THEN obj.cards[j] \in {CARD_INPUT, CARD_OUTPUT}
                      ELSE obj.cards[j] = CARD_NONE
    /\ Cardinality({j \in 1..MAX_CARDS : obj.cards[j] = CARD_INPUT}) = obj.input_cards

\* C11 witness: a None was pushed, then an Input card that filled the last
\* free slot, and the next push was refused
C11_Witness ==
    /\ Len(calls) = 3
    /\ calls[1] = CARD_NONE /\ calls[2] = CARD_INPUT
    /\ obj.input_cards + obj.output_cards = MAX_CARDS
    /\ ~IsOk(ret)

-----------------------------------------------------------------------------
(* SminiConfiguration::try_new and ::decode over sampled inputs *)

\* bytes of oscillating_pairs: no bit, a lone low or high bit, a pair at
\* either end, every bit
PairBytes == {0, 1, 3, 128, 192, 255}

\* oscillating_pairs arrays: three neighbouring bytes drawn from PairBytes,
\* the others zero, and the array with every bit set
PairArrays ==
    {[j \in 1..6 |-> IF j \in k..(k + 2) THEN w[j - k + 1] ELSE 0] :
        k \in 1..4, w \in [1..3 -> PairBytes]}
    \cup {Repeat(255, 6)}

\* the raw bytes SminiConfiguration::decode is given for an input: the first
\* cut bytes of NDP, transmit delay, count byte, oscillating pairs
SminiRaw(in) ==
    SubSeq(<<NDP_SMINI>> \o BeBytes(in.transmit_delay) \o <<in.count>>
               \o in.oscillating_pairs, 1, in.cut)

InitSmini ==
    /\ cin \in [transmit_delay : {258}, count : {0, 1}, cut : {4, 9, 10},
                oscillating_pairs : PairArrays]
    /\ cout = <<>>
    /\ cop = <<>>
    /\ IdleRx /\ IdleConn /\ IdleCtl /\ IdleLib /\ IdleTools

\* SminiConfiguration::try_new(transmit_delay, oscillating_pairs)
SminiTryNew ==
    /\ cop = <<>>
    /\ cout' = smini_try_new(cin.transmit_delay, cin.oscillating_pairs)
    /\ cop' = <<"try_new">>
    /\ UNCHANGED <<cin, rxVars, connVars, ctlVars, libVars, toolVars>>

\* SminiConfiguration::decode(raw)
SminiDecode ==
    /\ cop = <<>>
    /\ cout' = smini_decode(SminiRaw(cin))
    /\ cop' = <<"decode">>
    /\ UNCHANGED <<cin, rxVars, connVars, ctlVars, libVars, toolVars>>

NextSmini == SminiTryNew \/ SminiDecode

SpecSmini == InitSmini /\ [][NextSmini]_vars

\* the 48 bits of oscillating_pairs as one flat sequence, pairs[0] first
FlatBits(pairs) == [j \in 1..48 |-> PairsBit(pairs, 48 - j)]

\* every maximal run of set bits in the flat sequence has even length
RunsEven(pairs) ==
    LET bits == FlatBits(pairs) IN
    \A s \in 1..48 : \A e \in s..48 :
        (/\ \A k \in s..e : bits[k] = 1
         /\ (s = 1 \/ bits[s - 1] = 0)
         /\ (e = 48 \/ bits[e + 1] = 0))
        => (e - s + 1) % 2 = 0

SetBits(pairs) ==
    LET bits == FlatBits(pairs) IN Cardinality({j \in 1..48 : bits[j] = 1})

\* the oscillating_pairs the call reads from its input: try_new its
\* argument, decode bytes 4..9 when the count byte is not zero (no pairs
\* follow a zero count) and the slice is long enough to hold them
PairsRead ==
    IF cop = <<"try_new">> THEN cin.oscillating_pairs
    ELSE IF cin.count = 0 THEN Repeat(0, 6)
    ELSE cin.oscillating_pairs

\* C12: an SMINI configuration produced by try_new or decode has every
\* maximal run of set bits in its 48 oscillating_pairs bits of even length
\* and oscillating_count = set bits / 2; oscillating pairs with a run of
\* odd length are rejected with NonAdjacent
C12_EvenRuns ==
    cop # <<>> =>
        /\ IsOk(cout) =>
              /\ RunsEven(cout.value.oscillating_pairs)
              /\ 2 * cout.value.oscillating_count = SetBits(cout.value.oscillating_pairs)
              /\ cout.value.oscillating_pairs = PairsRead
        /\ (~RunsEven(PairsRead) /\ (cop = <<"decode">> => cin.cut = 10))
              => cout = Err(<<"NonAdjacent">>)

\* C12 witness: decode accepted oscillating pairs whose one run of two bits
\* crosses a byte boundary
C12_Witness ==
    /\ cop = <<"decode">>
    /\ IsOk(cout)
    /\ cout.value.oscillating_count = 1
    /\ \E k \in 1..5 : /\ cout.value.oscillating_pairs[k] = 1
                       /\ cout.value.oscillating_pairs[k + 1] = 128

-----------------------------------------------------------------------------
(* cp Configuration::try_new and ::decode over sampled byte counts *)

\* input_bytes / output_bytes values: around the limits of the two ranges
\* (2, 18 and 24 bytes in total) and around the width of a u8
ByteCounts == {0, 1, 2, 3, 8, 9, 10, 12, 16, 17, 18, 23, 24, 25, 127, 128, 129, 254, 255}

\* the raw bytes cp Configuration::decode is given for an input: the first
\* cut bytes of what encode writes
CpRaw(in) ==
    SubSeq(<<CpNdp(in.kind)>> \o BeBytes(in.transmit_delay) \o LeBytes(in.options)
               \o <<in.input_bytes, in.output_bytes>> \o Repeat(SYN, 6), 1, in.cut)

InitCp ==
    /\ cin \in [kind : {"Cpnode", "Cpmega"}, transmit_delay : {258}, options : {513},
                input_bytes : ByteCounts, output_bytes : ByteCounts, cut : {6, 7, 13}]
    /\ cout = <<>>
    /\ cop = <<>>
    /\ IdleRx /\ IdleConn /\ IdleCtl /\ IdleLib /\ IdleTools

\* Configuration::try_new(transmit_delay, options, input_bytes, output_bytes)
CpTryNew ==
    /\ cop = <<>>
    /\ cout' = cp_try_new(cin.kind, cin.transmit_delay, cin.options,
                          cin.input_bytes, cin.output_bytes)
    /\ cop' = <<"try_new">>
    /\ UNCHANGED <<cin, rxVars, connVars, ctlVars, libVars, toolVars>>

\* Configuration::decode(raw)
CpDecode ==
    /\ cop = <<>>
    /\ cout' = cp_decode(cin.kind, CpRaw(cin))
    /\ cop' = <<"decode">>
    /\ UNCHANGED <<cin, rxVars, connVars, ctlVars, libVars, toolVars>>

NextCp == CpTryNew \/ CpDecode

SpecCp == InitCp /\ [][NextCp]_vars

\* the range of total bits a node of this kind allows
AllowedBits(kind) ==
    IF kind = "Cpnode" THEN <<CPNODE_MIN_BITS, CPNODE_MAX_BITS>> ELSE <<0, CPMEGA_MAX_BITS>>

\* C13: a CPNODE / CPMEGA configuration produced by try_new or decode has
\* 8 * (input_bytes + output_bytes) within [16, 144] / [0, 192] and keeps the
\* byte counts it was given; any other pair of byte counts is rejected with
\* InvalidInputOutputBitsCount(total bits, allowed range), the total being
\* the exact sum
C13_BitsInRange ==
    (cop # <<>> /\ (cop = <<"decode">> => cin.cut >= 7)) =>
        LET total == 8 * (cin.input_bytes + cin.output_bytes)
            range == AllowedBits(cin.kind)
        IN  IF total >= range[1] /\ total <= range[2]
            THEN /\ IsOk(cout)
                 /\ cout.value.input_bytes = cin.input_bytes
                 /\ cout.value.output_bytes = cin.output_bytes
                 /\ cout.value.kind = cin.kind
            ELSE cout = Err(<<"InvalidInputOutputBitsCount", total, range>>)

\* C13 witness: decode rejected byte counts whose sum does not fit a u8
C13_Witness ==
    /\ cop = <<"decode">>
    /\ cin.input_bytes + cin.output_bytes >= 256
    /\ cout = Err(<<"InvalidInputOutputBitsCount",
                    8 * (cin.input_bytes + cin.output_bytes), AllowedBits(cin.kind)>>)

-----------------------------------------------------------------------------
(* sic Configuration::encode over valid USIC / SUSIC configurations *)

\* card i (from 1) of a run of k cards: all Input, all Output, or four
\* Input cards and then Output cards
CardPattern(p, i) ==
    IF p = "inputs" THEN CARD_INPUT
    ELSE IF p = "outputs" THEN CARD_OUTPUT
    ELSE IF i <= 4 THEN CARD_INPUT ELSE CARD_OUTPUT

\* slices given to try_new: k cards of a pattern, then trailing None cards
ValidCardSlices ==
    {[i \in 1..(k + t) |-> IF i <= k THEN CardPattern(p, i) ELSE CARD_NONE] :
        k \in 0..MAX_CARDS, t \in {0, 5}, p \in {"inputs", "outputs", "mixed"}}

InitSic ==
    /\ cin \in [kind : {"Usic", "Susic"}, transmit_delay : {0, 258},
                cards : {s \in ValidCardSlices : Len(s) <= MAX_CARDS}]
    /\ cout = <<>>
    /\ cop = <<>>
    /\ IdleRx /\ IdleConn /\ IdleCtl /\ IdleLib /\ IdleTools

\* Configuration::try_new(transmit_delay, cards).unwrap().encode()
SicEncode ==
    /\ cop = <<>>
    /\ cout' = sic_encode(sic_try_new(cin.kind, cin.transmit_delay, cin.cards).value)
    /\ cop' = <<"encode">>
    /\ UNCHANGED <<cin, rxVars, connVars, ctlVars, libVars, toolVars>>

\* Configuration::decode of the bytes encode wrote
SicDecode ==
    /\ cop = <<"encode">>
    /\ cout' = sic_decode(cin.kind, cout)
    /\ cop' = <<"encode", "decode">>
    /\ UNCHANGED <<cin, rxVars, connVars, ctlVars, libVars, toolVars>>

NextSic == SicEncode \/ SicDecode

SpecSic == InitSic /\ [][NextSic]_vars

\* the number of Input / Output cards of the configuration
CardCount == Cardinality({i \in 1..Len(cin.cards) : cin.cards[i] # CARD_NONE})

\* the two bits of card i (from 1) in the encoded bytes: group byte
\* ceil(i / 4), bit pair (i - 1) mod 4 counted from the lowest
EncodedCard(raw, i) == (raw[4 + ((i + 3) \div 4)] \div (4 ^ ((i - 1) % 4))) % 4

\* C14: for a valid USIC / SUSIC configuration of k cards encode emits
\* 4 + ceil(k/4) bytes: the NDP, the transmit delay, byte 3 = ceil(k/4),
\* then the group bytes holding four cards each, two bits a card, the
\* lowest-numbered card in the lowest pair; the last group byte is not zero
C14_EncodeIsMinimal ==
    cop = <<"encode">> =>
        LET k      == CardCount
            groups == (k + 3) \div 4
        IN  /\ Len(cout) = 4 + groups
            /\ cout[1] = SicNdp(cin.kind)
            /\ <<cout[2], cout[3]>> = BeBytes(cin.transmit_delay)
            /\ cout[4] = groups
            /\ \A i \in 1..(4 * groups) :
                  EncodedCard(cout, i) = IF i <= k THEN cin.cards[i] ELSE CARD_NONE
            /\ groups > 0 => cout[4 + groups] # 0

\* C14 witness: the configuration of four Input and two Output cards was
\* encoded as [0x4E, 0, 0, 2, 0b01010101, 0b00001010]
C14_Witness ==
    /\ cop = <<"encode">>
    /\ Len(cin.cards) > 6
    /\ cout = <<NDP_USIC, 0, 0, 2, 85, 10>>

-----------------------------------------------------------------------------
(* Data and packet::Raw as the structs they are: raw[0..MAX_LEN] and len *)

MaxCalls == 3

\* Data::new(len) for len <= 256
Data_new(len) == [kind |-> "Data", raw |-> Repeat(0, DATA_MAX_LEN), len |-> len]

\* packet::Raw::new()
Raw_new == [kind |-> "Raw", raw |-> Repeat(0, PACKET_MAX_LEN), len |-> 0]

\* common_implementation!: MAX_LEN, available, as_slice, clear
buf_max_len(b) == IF b.kind = "Data" THEN DATA_MAX_LEN ELSE PACKET_MAX_LEN
buf_available(b) == buf_max_len(b) - b.len
buf_as_slice(b) == SubSeq(b.raw, 1, b.len)
buf_clear(b) == [obj |-> [b EXCEPT !.len = 0], result |-> Ok(<<>>)]

\* Data::push and packet::Raw::push
buf_push(b, value) ==
    IF buf_available(b) = 0 THEN [obj |-> b, result |-> Err(value)]
    ELSE [obj |-> [b EXCEPT !.raw[b.len + 1] = value, !.len = @ + 1],
          result |-> Ok(value)]

\* push_all that writes as many of the items as fit
buf_push_all_partial(b, items) ==
    LET n == Min(Len(items), buf_available(b)) IN
    [obj |-> [b EXCEPT !.raw = [k \in 1..Len(b.raw) |->
                                  IF k > b.len /\ k <= b.len + n
                                  THEN items[k - b.len] ELSE b.raw[k]],
                       !.len = @ + n],
     result |-> IF n = Len(items) THEN Ok(<<>>) ELSE Err(buf_available(b))]

\* Data::push_all and packet::Raw::push_all
buf_push_all(b, items) ==
    IF buf_available(b) >= Len(items)
    THEN [obj |-> [b EXCEPT !.raw = [k \in 1..Len(b.raw) |->
                                       IF k > b.len /\ k <= b.len + Len(items)
                                       THEN items[k - b.len] ELSE b.raw[k]],
                            !.len = @ + Len(items)],
          result |-> Ok(<<>>)]
    ELSE [obj |-> b, result |-> Err(buf_available(b))]

\* bit n of a byte
BitOf(byte, n) == (byte \div (2 ^ n)) % 2

\* byte | (1 << n), byte & !(1 << n), byte ^ (1 << n)
WithBit(byte, n, value) ==
    byte - BitOf(byte, n) * (2 ^ n) + (IF value THEN 2 ^ n ELSE 0)

\* set_bit that zeroes the bytes it brings inside the length
set_bit_zero_filling(d, index, value) ==
    IF index > 2047 THEN [obj |-> d, result |-> Panic]
    ELSE LET byte  == index \div 8
             grown == IF byte >= d.len
                      THEN [d EXCEPT !.len = byte + 1,
                                     !.raw = [k \in 1..Len(d.raw) |->
                                                IF k > d.len THEN 0 ELSE d.raw[k]]]
                      ELSE d
         IN  [obj |-> [grown EXCEPT !.raw[byte + 1] = WithBit(@, index % 8, value)],
              result |-> Ok(<<>>)]

\* Data::set_bit: the length grows to take in the byte, whose stored value
\* then has the one bit set or cleared
set_bit(d, index, value) ==
    IF index > 2047 THEN [obj |-> d, result |-> Panic]
    ELSE LET byte  == index \div 8
             grown == IF byte >= d.len THEN [d EXCEPT !.len = byte + 1] ELSE d
         IN  [obj |-> [grown EXCEPT !.raw[byte + 1] = WithBit(@, index % 8, value)],
              result |-> Ok(<<>>)]

\* Data::toggle_bit: panics when the byte is not inside the length
toggle_bit(d, index) ==
    LET byte == index \div 8 IN
    IF ~(byte < d.len) THEN [obj |-> d, result |-> Panic]
    ELSE [obj |-> [d EXCEPT !.raw[byte + 1] =
                      WithBit(@, index % 8, BitOf(@, index % 8) = 0)],
          result |-> Ok(<<>>)]

\* a call on the value: its name and its arguments
Call(op, index, value, items) ==
    [op |-> op, index |-> index, value |-> value, items |-> items]

\* bit indexes given to set_bit / toggle_bit, bytes given to push, slices
\* given to push_all
BitIndexes == {0, 9, 23, 2047, 2048}
PushedBytes == {SYN, 1}
PushedSlices == {<<>>, <<1, 2, 3>>, Repeat(SYN, DATA_MAX_LEN - 1),
                 Repeat(SYN, PACKET_MAX_LEN - 1)}

InitData ==
    /\ obj \in {Data_new(0), Data_new(2), Data_new(DATA_MAX_LEN), Raw_new}
    /\ ret = Ok(<<>>)
    /\ calls = <<>>
    /\ IdleRx /\ IdleCodec /\ IdleConn /\ IdleCtl /\ IdleTools

\* one call on the value: the value after it, what it returned; a panic
\* ends the calls
Called(after, call) ==
    /\ ret.status # "Panic"
    /\ obj' = after.obj
    /\ ret' = after.result
    /\ calls' = Append(calls, call)
    /\ UNCHANGED <<rxVars, codecVars, connVars, ctlVars, toolVars>>

Push == \E value \in PushedBytes :
    /\ Len(calls) < MaxCalls
    /\ Called(buf_push(obj, value), Call("push", 0, value, <<>>))

PushAllItems == \E items \in PushedSlices :
    /\ Len(calls) < MaxCalls
    /\ Called(buf_push_all(obj, items), Call("push_all", 0, 0, items))

Clear ==
    /\ Len(calls) < MaxCalls
    /\ Called(buf_clear(obj), Call("clear", 0, 0, <<>>))

SetBit == \E index \in BitIndexes, value \in BOOLEAN :
    /\ Len(calls) < MaxCalls
    /\ obj.kind = "Data"
    /\ Called(set_bit(obj, index, value),
              Call("set_bit", index, IF value THEN 1 ELSE 0, <<>>))

ToggleBit == \E index \in BitIndexes :
    /\ Len(calls) < MaxCalls
    /\ obj.kind = "Data"
    /\ Called(toggle_bit(obj, index), Call("toggle_bit", index, 0, <<>>))

NextData == Push \/ PushAllItems \/ Clear \/ SetBit \/ ToggleBit

SpecData == InitData /\ [][NextData]_vars

\* the call a step makes
LastCall == calls'[Len(calls')]
IsCall(op) == Len(calls') = Len(calls) + 1 /\ LastCall.op = op

\* C15: a call set_bit(i, v) with i/8 >= len grows len to i/8 + 1, and
\* every bit it brings inside the length other than bit i reads as zero
C15_SetBitZeroFills ==
    [][(IsCall("set_bit") /\ LastCall.index \div 8 >= obj.len /\ ret'.status # "Panic") =>
          LET byte == LastCall.index \div 8 IN
          /\ obj'.len = byte + 1
          /\ \A k \in (obj.len + 1)..(byte + 1) :
                obj'.raw[k] = IF k = byte + 1
                              THEN LastCall.value * (2 ^ (LastCall.index % 8))
                              ELSE 0]_vars

\* C19: push on a full Data or packet::Raw returns Err(the byte) and
\* push_all of more items than the free space returns Err(the free space),
\* both leaving the value as it was; otherwise the bytes are appended in
\* order and the length grows by their number
C19_PushAllOrNothing ==
    [][/\ IsCall("push") =>
            IF buf_available(obj) = 0
            THEN ret' = Err(LastCall.value) /\ obj' = obj
            ELSE /\ ret' = Ok(LastCall.value)
                 /\ buf_as_slice(obj') = Append(buf_as_slice(obj), LastCall.value)
                 /\ obj'.len = obj.len + 1
       /\ IsCall("push_all") =>
            IF Len(LastCall.items) > buf_available(obj)
            THEN ret' = Err(buf_available(obj)) /\ obj' = obj
            ELSE /\ ret'.status = "Ok"
                 /\ buf_as_slice(obj') = buf_as_slice(obj) \o LastCall.items
                 /\ obj'.len = obj.len + Len(LastCall.items)]_vars

\* C19 witness: a packet::Raw holding 257 bytes refused a push_all of three
\* bytes, returning the one byte of space left
C19_Witness ==
    /\ obj.kind = "Raw"
    /\ obj.len = PACKET_MAX_LEN - 1
    /\ calls # <<>>
    /\ calls[Len(calls)] = Call("push_all", 0, 0, <<1, 2, 3>>)
    /\ ret = Err(1)

-----------------------------------------------------------------------------
(* Readings<T, N>: a ring buffer of the last N readings *)

MaxN == 3
MaxReadings == 5

Some(v) == [status |-> "Some", value |-> v]
None    == [status |-> "None", value |-> 0]

\* Readings::new(): N default values, not full, next = 0
readings_new(N) == [values |-> Repeat(0, N), full |-> FALSE, next |-> 0]

\* Readings::push that never sets full
readings_push_never_full(r, value) ==
    LET N == Len(r.values) IN
    IF N = 0 THEN [obj |-> r, result |-> Panic]
    ELSE [obj |-> [r EXCEPT !.values[r.next + 1] = value, !.next = (@ + 1) % N],
          result |-> Ok(<<>>)]

\* Readings::push: values[next] = value (out of bounds when N = 0), full
\* once the last slot is written, next moves on modulo N
readings_push(r, value) ==
    LET N == Len(r.values) IN
    IF ~(r.next < N) THEN [obj |-> r, result |-> Panic]
    ELSE [obj |-> [r EXCEPT !.values[r.next + 1] = value,
                            !.full = IF r.next = N - 1 THEN TRUE ELSE @,
                            !.next = (@ + 1) % N],
          result |-> Ok(<<>>)]

\* Readings::as_slice
readings_as_slice(r) == IF r.full THEN r.values ELSE SubSeq(r.values, 1, r.next)

\* Readings::len
readings_len(r) == IF r.full THEN Len(r.values) ELSE r.next

\* Readings::is_empty
readings_is_empty(r) == ~r.full /\ r.next = 0

\* Readings::last
readings_last(r) ==
    IF readings_is_empty(r) THEN None
    ELSE Some(r.values[(IF r.next = 0 THEN Len(r.values) - 1 ELSE r.next - 1) + 1])

\* Readings::as_vec
readings_as_vec(r) ==
    LET cutoff == r.next IN
    IF r.full THEN SubSeq(r.values, cutoff + 1, Len(r.values)) \o SubSeq(r.values, 1, cutoff)
    ELSE SubSeq(r.values, 1, cutoff)

InitReadings ==
    /\ obj \in {readings_new(N) : N \in 0..MaxN}
    /\ ret = Ok(<<>>)
    /\ calls = <<>>
    /\ IdleRx /\ IdleCodec /\ IdleConn /\ IdleCtl /\ IdleTools

\* readings.push(value)
PushReading == \E value \in 1..3 :
    /\ Len(calls) < MaxReadings
    /\ ret.status # "Panic"
    /\ obj' = readings_push(obj, value).obj
    /\ ret' = readings_push(obj, value).result
    /\ calls' = Append(calls, value)
    /\ UNCHANGED <<rxVars, codecVars, connVars, ctlVars, toolVars>>

NextReadings == PushReading

SpecReadings == InitReadings /\ [][NextReadings]_vars

\* how often v occurs in the sequence s
Occurrences(s, v) == Cardinality({i \in 1..Len(s) : s[i] = v})

\* after the pushes in calls: len, as_vec, as_slice and last are those of
\* the last min(k, N) pushed values
ReadingsAreTheLast(N) ==
    LET k == Len(calls)
        m == Min(k, N)
    IN  /\ ret.status # "Panic"
        /\ readings_len(obj) = m
        /\ readings_as_vec(obj) = SubSeq(calls, k - m + 1, k)
        /\ \A v \in 0..3 : Occurrences(readings_as_slice(obj), v)
                              = Occurrences(readings_as_vec(obj), v)
        /\ readings_last(obj) = IF k = 0 THEN None ELSE Some(calls[k])

\* C20: for Readings<T, N>, after any k pushes len() = min(k, N), as_vec()
\* is the last min(k, N) pushed values oldest first, as_slice() holds the
\* same values, and last() is the value pushed last (None when k = 0)
C20_LastReadings == ReadingsAreTheLast(Len(obj.values))

\* the same for the buffers that hold at least one reading
C20_LastReadingsOfNonEmptyBuffers ==
    Len(obj.values) >= 1 => ReadingsAreTheLast(Len(obj.values))

\* C20 witness: a buffer of three readings was pushed five values and
\* wrapped, so that as_slice() and as_vec() differ in order
C20_Witness ==
    /\ Len(obj.values) = 3
    /\ Len(calls) = 5
    /\ obj.full
    /\ readings_as_slice(obj) # readings_as_vec(obj)
    /\ readings_as_vec(obj) = SubSeq(calls, 3, 5)

-----------------------------------------------------------------------------
(* Address: the two constructors and the two getters over every u8 *)

\* a constructor's result and, when it made an Address, what the getters give
Constructed(made) ==
    [made |-> made,
     node |-> IF IsOk(made) THEN as_node_address(made.value) ELSE 0,
     unit |-> IF IsOk(made) THEN as_unit_address(made.value) ELSE 0]

InitAddress ==
    /\ cin \in 0..255
    /\ cout = <<>>
    /\ cop = <<>>
    /\ IdleRx /\ IdleConn /\ IdleCtl /\ IdleLib /\ IdleTools

\* Address::try_from_node_address(address), then the getters
FromNodeAddress ==
    /\ cop = <<>>
    /\ cout' = Constructed(try_from_node_address(cin))
    /\ cop' = <<"try_from_node_address">>
    /\ UNCHANGED <<cin, rxVars, connVars, ctlVars, libVars, toolVars>>

\* Address::try_from_unit_address(address), then the getters
FromUnitAddress ==
    /\ cop = <<>>
    /\ cout' = Constructed(try_from_unit_address(cin))
    /\ cop' = <<"try_from_unit_address">>
    /\ UNCHANGED <<cin, rxVars, connVars, ctlVars, libVars, toolVars>>

NextAddress == FromNodeAddress \/ FromUnitAddress

SpecAddress == InitAddress /\ [][NextAddress]_vars

\* C18: try_from_node_address(n) succeeds exactly for n in 0..127, with
\* node address n and unit address n + 65; try_from_unit_address(u) succeeds
\* exactly for u in 65..192, with node address u - 65 and unit address u;
\* any other byte is rejected with InvalidNodeAddress(n) / InvalidUnitAddress(u),
\* and what the getters return fits a u8
C18_AddressRoundTrip ==
    /\ cop = <<"try_from_node_address">> =>
          IF cin \in 0..127
          THEN IsOk(cout.made) /\ cout.node = cin /\ cout.unit = cin + 65
          ELSE ~IsOk(cout.made) /\ cout.made = Err(<<"InvalidNodeAddress", cin>>)
    /\ cop = <<"try_from_unit_address">> =>
          IF cin \in 65..192
          THEN IsOk(cout.made) /\ cout.node = cin - 65 /\ cout.unit = cin
          ELSE ~IsOk(cout.made) /\ cout.made = Err(<<"InvalidUnitAddress", cin>>)
    /\ cop # <<>> => cout.node \in 0..255 /\ cout.unit \in 0..255

\* C18 witness: the highest node address, 127, was given unit address 192
C18_Witness ==
    /\ cop = <<"try_from_node_address">>
    /\ cin = 127
    /\ IsOk(cout.made)
    /\ cout.unit = 192

-----------------------------------------------------------------------------
(* The node simulator: run_connection of cmri_tools/src/bin/node/state.rs *)
(*                                                                         *)
(* sim holds the simulator's address, its State (inputs, outputs,          *)
(* initialised), the frames connection.receive() gave it (received), the   *)
(* frames it sent (sent) and the task's fate (pc).                         *)

MaxFrames == 3

\* NodeConfiguration::input_bytes of a node sort
input_bytes(sort) ==
    IF sort.kind \in {"Cpnode", "Cpmega"} THEN sort.input_bytes
    ELSE IF sort.kind = "Smini" THEN 3
    ELSE Cardinality({i \in 1..Len(sort.cards) : sort.cards[i] = CARD_INPUT})
            * (IF sort.kind = "Usic" THEN 3 ELSE 4)

\* node State::new, for the simulator of a node address
sim_new(address) ==
    [address |-> address, inputs |-> <<>>, outputs |-> <<>>, initialised |-> FALSE,
     received |-> <<>>, sent |-> <<>>, pc |-> "running"]

\* State::initialise
initialise(s, bytes) ==
    [s EXCEPT !.inputs = data_new(bytes), !.outputs = <<>>, !.initialised = TRUE]

\* the arm Ok(packet) with the address not compared
sim_on_packet_any_address(s, packet) ==
    IF packet.payload.kind = "Initialization"
    THEN initialise(s, input_bytes(packet.payload.node_sort))
    ELSE IF packet.payload.kind = "PollRequest"
    THEN IF s.initialised
         THEN [s EXCEPT !.sent = Append(@,
                  encode_frame(Packet(packet.address, ReceiveData(s.inputs))).value)]
         ELSE s
    ELSE IF packet.payload.kind = "TransmitData"
    THEN [s EXCEPT !.outputs = packet.payload.data]
    ELSE [s EXCEPT !.pc = "panicked"]

\* run_connection, arm Ok(packet): only a packet for this node is acted on
sim_on_packet(s, packet) ==
    IF packet.address # s.address THEN s
    ELSE IF packet.payload.kind = "Initialization"
    THEN initialise(s, input_bytes(packet.payload.node_sort))
    ELSE IF packet.payload.kind = "PollRequest"
    THEN IF s.initialised
         THEN [s EXCEPT !.sent = Append(@,
                  encode_frame(Packet(packet.address, ReceiveData(s.inputs))).value)]
         ELSE s
    ELSE IF packet.payload.kind = "TransmitData"
    THEN [s EXCEPT !.outputs = packet.payload.data]
    ELSE [s EXCEPT !.pc = "panicked"]

\* run_connection, arm Ok(frame): a frame that does not decode is logged, a
\* decoding that panics ends the task
sim_on_frame(s, f) ==
    LET packet == try_as_packet(f) IN
    IF packet.status = "Panic" THEN [s EXCEPT !.pc = "panicked"]
    ELSE IF packet.status = "Err" THEN s
    ELSE sim_on_packet(s, packet.value)

\* a completed frame holding the bytes
CompletedFrame(bytes) ==
    [NewFrame EXCEPT !.raw = bytes, !.len = Len(bytes), !.receive_state = "Received"]

\* the frames connection.receive() gives the simulator: packets of every
\* kind for either address, a frame with no valid message type, and an
\* Initialization frame cut after its message type
SimFrames ==
    {encode_frame(Packet(a, pl)).value :
        a \in NodeAddrs,
        pl \in {PollRequest, ReceiveData(<<1>>), TransmitData(<<DLE, 1>>),
                Initialization(CtlSort(0)), Initialization(smini_try_new(0, Repeat(0, 6)).value)}}
    \cup {CompletedFrame(<<SYN, SYN, STX, UA_OFFSET, FILL, ETX>>),
          CompletedFrame(<<SYN, SYN, STX, UA_OFFSET, MT_I, ETX>>)}

InitSimulator ==
    /\ sim \in {sim_new(a) : a \in NodeAddrs}
    /\ mon = <<>>
    /\ fw = <<>> /\ hub = <<>>
    /\ IdleRx /\ IdleCodec /\ IdleConn /\ IdleCtl /\ IdleLib

SimUnchanged == UNCHANGED <<rxVars, codecVars, connVars, ctlVars, libVars, mon, fw, hub>>

\* connection.receive() gave a frame: one turn of the loop
SimReceives == \E f \in SimFrames :
    /\ sim.pc = "running"
    /\ Len(sim.received) < MaxFrames
    /\ sim' = [sim_on_frame(sim, f) EXCEPT !.received = Append(@, f)]
    /\ SimUnchanged

\* connection.receive() gave an error: std::process::exit(1)
SimReadError ==
    /\ sim.pc = "running"
    /\ sim' = [sim EXCEPT !.pc = "exited"]
    /\ SimUnchanged

\* the GUI flips an input bit of the initialised node
SimGuiTogglesInput ==
    /\ sim.pc = "running"
    /\ sim.initialised
    /\ Len(sim.inputs) > 0
    /\ sim' = [sim EXCEPT !.inputs[1] = WithBit(@, 0, BitOf(@, 0) = 0)]
    /\ SimUnchanged

NextSimulator == SimReceives \/ SimReadError \/ SimGuiTogglesInput

SpecSimulator == InitSimulator /\ [][NextSimulator]_vars

\* the step handles a frame that decodes to a packet for another node
HandlesForeignPacket ==
    /\ Len(sim'.received) = Len(sim.received) + 1
    /\ LET packet == try_as_packet(sim'.received[Len(sim'.received)])
       IN  IsOk(packet) /\ packet.value.address # sim.address

\* C17: on a decoded packet whose address is not the simulator's own the
\* simulator sends nothing and leaves inputs, outputs and initialised as
\* they were
C17_ForeignPacketsIgnored ==
    [][HandlesForeignPacket =>
          /\ sim'.sent = sim.sent
          /\ sim'.inputs = sim.inputs
          /\ sim'.outputs = sim.outputs
          /\ sim'.initialised = sim.initialised
          /\ sim'.pc = sim.pc]_vars

\* C17 witness: the initialised simulator answered a poll of its own, then
\* was given a poll request for the other node and has still sent one frame
C17_Witness ==
    /\ Len(sim.received) = 3
    /\ sim.initialised
    /\ Len(sim.sent) = 1
    /\ LET last == try_as_packet(sim.received[3])
           prev == try_as_packet(sim.received[2])
       IN  /\ IsOk(last) /\ last.value.address # sim.address
           /\ last.value.payload.kind = "PollRequest"
           /\ IsOk(prev) /\ prev.value.address = sim.address
           /\ prev.value.payload.kind = "PollRequest"

-----------------------------------------------------------------------------
(* The monitor: run_connection and run_ticker of bin/monitor/monitor        *)
(*                                                                         *)
(* mon holds the State (the connection's Statistics and each node's), the  *)
(* frames connection.receive() gave the task (received) and the task's    *)
(* fate (pc).  A counter is [current, total, readings]; the readings are   *)
(* kept oldest first, as as_vec() gives them.                              *)

MaxTicks == 1

Counter == [current |-> 0, total |-> 0, readings |-> <<>>]

\* Statistics::default()
statistics_new ==
    [packets |-> Counter, bad_packets |-> Counter,
     initialization_packets |-> Counter, poll_packets |-> Counter,
     receive_data_packets |-> Counter, transmit_data_packets |-> Counter]

\* the largest count of a current second, a u16
U16_MAX == 65535

\* counter.0 += 1; counter.1 += 1 where the addition does not panic: the
\* u16 wraps in a build without overflow checks, the u64 total does not
\* get that far
Counted(c) == [c EXCEPT !.current = (@ + 1) % (U16_MAX + 1), !.total = @ + 1]

\* a got_bad_packet that counts the frame as a bad packet only
statistics_got_bad_packet_only_bad(st) ==
    [st EXCEPT !.bad_packets = Counted(@)]

\* Statistics::got_bad_packet
statistics_got_bad_packet(st) ==
    [st EXCEPT !.packets = Counted(@), !.bad_packets = Counted(@)]

\* Statistics::got_packet
statistics_got_packet(st, packet) ==
    LET counted == [st EXCEPT !.packets = Counted(@)] IN
    IF packet.payload.kind = "Initialization"
    THEN [counted EXCEPT !.initialization_packets = Counted(@)]
    ELSE IF packet.payload.kind = "PollRequest"
    THEN [counted EXCEPT !.poll_packets = Counted(@)]
    ELSE IF packet.payload.kind = "ReceiveData"
    THEN [counted EXCEPT !.receive_data_packets = Counted(@)]
    ELSE [counted EXCEPT !.transmit_data_packets = Counted(@)]

\* a tick that pushes the current counts and keeps them
statistics_tick_keeps_current(st) ==
    [k \in DOMAIN st |->
        [current |-> st[k].current, total |-> st[k].total,
         readings |-> Append(st[k].readings, st[k].current)]]

\* Statistics::tick: each current count is pushed to its readings and zeroed
statistics_tick(st) ==
    [k \in DOMAIN st |->
        [current |-> 0, total |-> st[k].total,
         readings |-> Append(st[k].readings, st[k].current)]]

\* monitor Node::new
mon_node_new(address) ==
    [address |-> address, sort |-> None, inputs |-> None, outputs |-> None,
     initialization_count |-> 0, statistics |-> statistics_new]

\* monitor Node::got_packet
node_got_packet(node, packet) ==
    IF packet.address # node.address THEN node
    ELSE LET counted == [node EXCEPT !.statistics = statistics_got_packet(@, packet)] IN
         IF packet.payload.kind = "Initialization"
         THEN [counted EXCEPT !.initialization_count = @ + 1,
                              !.sort = Some(packet.payload.node_sort)]
         ELSE IF packet.payload.kind = "PollRequest" THEN counted
         ELSE IF packet.payload.kind = "ReceiveData"
         THEN IF packet.payload.data # <<>>
              THEN [counted EXCEPT !.inputs = Some(packet.payload.data)]
              ELSE counted
         ELSE [counted EXCEPT !.outputs = Some(packet.payload.data)]

\* frame::Raw::address: the byte after STX, when it is a unit address
frame_address(f) ==
    LET address == try_from_unit_address(f.raw[4]) IN
    IF IsOk(address) THEN Some(as_node_address(address.value)) ELSE None

\* monitor State::default, with the nodes of NodeAddrs
mon_state_new ==
    [statistics |-> statistics_new,
     nodes |-> [a \in NodeAddrs |-> mon_node_new(a)]]

\* State::got_bad_packet
got_bad_packet(state, node_address) ==
    LET counted == [state EXCEPT !.statistics = statistics_got_bad_packet(@)] IN
    IF node_address.status = "Some"
    THEN [counted EXCEPT !.nodes[node_address.value].statistics =
              statistics_got_bad_packet(@)]
    ELSE counted

\* State::got_packet
got_packet(state, packet) ==
    [state EXCEPT !.statistics = statistics_got_packet(@, packet),
                  !.nodes[packet.address] = node_got_packet(@, packet)]

\* State::tick
state_tick(state) ==
    [state EXCEPT !.statistics = statistics_tick(@),
                  !.nodes = [a \in DOMAIN @ |->
                               [@[a] EXCEPT !.statistics = statistics_tick(@)]]]

\* run_connection, arm Ok(frame); a try_as_packet that panics ends the task
mon_on_frame(m, f) ==
    LET packet == try_as_packet(f) IN
    IF packet.status = "Panic" THEN [m EXCEPT !.pc = "panicked"]
    ELSE IF packet.status = "Err"
    THEN [m EXCEPT !.state = got_bad_packet(@, frame_address(f))]
    ELSE [m EXCEPT !.state = got_packet(@, packet.value)]

\* the frames connection.receive() gives the monitor: packets of every kind
\* for either address, and frames that do not decode: no valid message type,
\* no valid unit address, an escaped address byte before a bad message type,
\* an unknown node type, an Initialization cut after its message type
MonFrames ==
    {encode_frame(Packet(a, pl)).value :
        a \in NodeAddrs,
        pl \in {PollRequest, ReceiveData(<<>>), TransmitData(<<DLE, 1>>),
                Initialization(CtlSort(0))}}
    \cup {CompletedFrame(<<SYN, SYN, STX>> \o b \o <<ETX>>) :
            b \in {<<UA_OFFSET, FILL>>, <<MAX_UNIT_ADDRESS, 0>>, <<0, MT_P>>,
                   <<DLE, UA_OFFSET, 0>>, <<UA_OFFSET, MT_I, 0>>,
                   <<MAX_UNIT_ADDRESS, MT_I>>}}

InitMonitor ==
    /\ mon = [state |-> mon_state_new, received |-> <<>>, ticks |-> 0, pc |-> "running"]
    /\ sim = <<>>
    /\ fw = <<>> /\ hub = <<>>
    /\ IdleRx /\ IdleCodec /\ IdleConn /\ IdleCtl /\ IdleLib

MonUnchanged == UNCHANGED <<rxVars, codecVars, connVars, ctlVars, libVars, sim, fw, hub>>

\* run_connection: connection.receive() gave a frame, one turn of the loop
MonReceives == \E f \in MonFrames :
    /\ mon.pc = "running"
    /\ Len(mon.received) < MaxFrames
    /\ mon' = [mon_on_frame(mon, f) EXCEPT !.received = Append(@, f)]
    /\ MonUnchanged

\* run_connection: connection.receive() gave an error, the loop breaks
MonReadError ==
    /\ mon.pc = "running"
    /\ mon' = [mon EXCEPT !.pc = "stopped"]
    /\ MonUnchanged

\* run_ticker: a second has passed
MonTick ==
    /\ mon.ticks < MaxTicks
    /\ mon' = [mon EXCEPT !.state = state_tick(@), !.ticks = @ + 1]
    /\ MonUnchanged

NextMonitor == MonReceives \/ MonReadError \/ MonTick

SpecMonitor == InitMonitor /\ [][NextMonitor]_vars

\* the frame the step handles
HandledFrame == mon'.received[Len(mon'.received)]

\* after the step the counters are those before it with packets and
\* bad_packets one higher, current second and total
CountedAsBad(before, after) ==
    /\ after.packets = Counted(before.packets)
    /\ after.bad_packets = Counted(before.bad_packets)
    /\ \A k \in DOMAIN before \ {"packets", "bad_packets"} : after[k] = before[k]

\* the step counts the frame as a bad packet, for the connection and for the
\* node whose unit address is the frame's address byte, and the task lives
BadFrameCounted ==
    /\ CountedAsBad(mon.state.statistics, mon'.state.statistics)
    /\ \A a \in NodeAddrs :
          IF frame_address(HandledFrame) = Some(a)
          THEN CountedAsBad(mon.state.nodes[a].statistics, mon'.state.nodes[a].statistics)
          ELSE mon'.state.nodes[a] = mon.state.nodes[a]
    /\ mon'.pc = "running"

\* C16: every completed frame that fails try_as_packet raises the
\* monitor's packets and bad_packets counters (current second and total) by
\* one, and those of the addressed node when the frame's address byte is a
\* unit address; no other counter changes and the monitor goes on receiving
C16_BadFramesCounted ==
    [][(Len(mon'.received) = Len(mon.received) + 1
            /\ ~IsOk(try_as_packet(HandledFrame)))
          => BadFrameCounted]_vars

\* the same for the frames on which try_as_packet returns an error
C16_RejectedFramesCounted ==
    [][(Len(mon'.received) = Len(mon.received) + 1
            /\ try_as_packet(HandledFrame).status = "Err")
          => BadFrameCounted]_vars

-----------------------------------------------------------------------------
(* SpecStream: a fresh frame::Raw is fed one byte stream (script) drawn     *)
(* from LongStreams, a byte per step, until receive returns Ok(true) or     *)
(* panics.  The streams are long bodies: ordinary bytes, DLE-escaped pairs, *)
(* and both, around the sizes of the packet and of the frame buffer.        *)

Preamble == <<SYN, SYN, STX>>

\* n escaped pairs DLE FILL
Pairs(n) == [i \in 1..(2 * n) |-> IF i % 2 = 1 THEN DLE ELSE FILL]

LongStreams ==
    {Preamble \o Pairs(n) \o <<ETX>> : n \in {PACKET_MAX_LEN - 1, PACKET_MAX_LEN}}
    \cup {Preamble \o Repeat(FILL, PACKET_MAX_LEN) \o Pairs(n) \o <<ETX>> : n \in {0, 1}}
    \cup {Preamble \o Repeat(FILL, PACKET_MAX_LEN + 1) \o <<ETX>>,
          WellFormed(Repeat(DLE, DATA_MAX_LEN))}

InitStream ==
    /\ frame = NewFrame /\ result = "None" /\ fed = <<>>
    /\ shadow = NewFrame /\ shadowResult = "None" /\ armed = FALSE
    /\ script \in LongStreams
    /\ IdleCodec /\ IdleConn /\ IdleCtl /\ IdleLib /\ IdleTools

\* one Raw::receive call with the next byte of the stream
StreamByte ==
    /\ script # <<>>
    /\ result \notin {"OkTrue", "Panic"}
    /\ LET r == receive(frame, Head(script)) IN
        /\ frame' = r.frame
        /\ result' = r.result
    /\ fed' = Append(fed, Head(script))
    /\ script' = Tail(script)
    /\ UNCHANGED <<shadow, shadowResult, armed>>
    /\ UNCHANGED <<codecVars, connVars, ctlVars, libVars, toolVars>>

NextStream == StreamByte

SpecStream == InitStream /\ [][NextStream]_vars

\* C21: whatever bytes a fresh Raw receives, up to its first Ok(true), the
\* stored length never exceeds 518 and receive never writes past the 518
\* bytes of the buffer (it never panics)
C21_ReceiveStaysInBuffer ==
    /\ frame.len <= FRAME_MAX_LEN
    /\ result # "Panic"

\* a frame of 518 bytes, the longest a valid packet needs, is received whole
C21_LongestFrameReceived ==
    (script = <<>> /\ fed = WellFormed(Repeat(DLE, DATA_MAX_LEN)))
        => (result = "OkTrue" /\ frame.len = FRAME_MAX_LEN)

\* the error a frame's try_as_packet gives is one of the framing and size
\* errors: TooShort, MissingSynchronisation, MissingStart, MissingEnd or
\* InvalidPacket(TooLong)
FramingError(r) ==
    IF r.status # "Err" THEN FALSE
    ELSE \/ r.value = <<"TooShort">>
         \/ r.value = <<"MissingSynchronisation">>
         \/ r.value = <<"MissingStart">>
         \/ r.value = <<"MissingEnd">>
         \/ r.value = <<"InvalidPacket", "TooLong">>

\* C23: a frame for which receive returned Ok(true) never fails
\* try_as_packet with TooShort, MissingSynchronisation, MissingStart,
\* MissingEnd or InvalidPacket(TooLong): between STX and ETX it holds at
\* most 258 bytes once the escapes are stripped
C23_ReceivedFramesFit ==
    result = "OkTrue" => ~FramingError(try_as_packet(frame))

\* frames whose unescaped bytes alone number at most 258 and that hold no
\* escaped pair do pass the framing and size checks
C23_UnescapedFramesFit ==
    (result = "OkTrue" /\ \A i \in 4..(frame.len - 1) : frame.raw[i] # DLE)
        => ~FramingError(try_as_packet(frame))

-----------------------------------------------------------------------------
(* SpecReceive: packet_len and the stored preamble *)

\* the number of bytes s[i..] holds once the escapes are stripped: a DLE
\* and the byte after it count as one byte, a trailing DLE as none
RECURSIVE StrippedLen(_, _)
StrippedLen(s, i) ==
    IF i > Len(s) THEN 0
    ELSE IF s[i] = DLE THEN (IF i + 1 <= Len(s) THEN 1 ELSE 0) + StrippedLen(s, i + 2)
    ELSE 1 + StrippedLen(s, i + 1)

\* C22: in state Receiving or ReceivingEscaped packet_len is the number of
\* escape-stripped packet bytes received since the STX of the current frame
C22_PacketLenCounts ==
    frame.receive_state \in {"Receiving", "ReceivingEscaped"}
        => frame.packet_len = StrippedLen(frame.raw, 4)

\* while no escaped pair and no ETX has been fed, packet_len is the number
\* of bytes stored after the STX
C22_PacketLenCountsUnescaped ==
    (/\ frame.receive_state \in {"Receiving", "ReceivingEscaped"}
     /\ \A i \in 1..(Len(fed) - 1) : fed[i] # DLE
     /\ \A i \in 1..Len(fed) : fed[i] # ETX)
        => frame.packet_len = StrippedLen(frame.raw, 4)

\* C29: in state Receiving, ReceivingEscaped or Received the stored bytes
\* begin with exactly SYN SYN STX, and the frame returned with Ok(true) is
\* the bytes sent from that STX on behind a preamble of two SYN: the noise
\* before the preamble and the SYN bytes after the second are not stored
C29_StoredPreamble ==
    /\ frame.receive_state \in {"Receiving", "ReceivingEscaped", "Received"}
        => (frame.len >= 3 /\ SubSeq(frame.raw, 1, 3) = <<SYN, SYN, STX>>)
    /\ result = "OkTrue"
        => LET k == Len(fed) - frame.len + 3 IN
            /\ k >= 3
            /\ SubSeq(fed, k - 2, k) = <<SYN, SYN, STX>>
            /\ frame.raw = <<SYN, SYN>> \o SubSeq(fed, k, Len(fed))

\* C29 witness: a frame was returned after a byte that was not stored, noise
\* before the preamble or a third SYN
C29_Witness ==
    /\ result = "OkTrue"
    /\ Len(fed) = frame.len + 1
    /\ fed[1] # SYN \/ SubSeq(fed, 1, 3) = <<SYN, SYN, SYN>>

-----------------------------------------------------------------------------
(* SpecFirmware: the receive loop of the test_node and poller firmware.     *)
(* fw.raw is the loop's Raw, fw.bus what the UART still has to deliver (a   *)
(* byte, or READ_ERROR for a read that fails), fw.frames the frames the bus *)
(* was made of, fw.got the packets receive() returned to main, fw.pc where  *)
(* the firmware is: inside receive() ("receiving"), back in main            *)
(* ("returned") or panicked.                                                *)

MaxBusFrames == 3

NODE_ADDRESS == 5
OTHER_ADDRESS == NODE_ADDRESS + 1

READ_ERROR == 0 - 1

\* common_implementation!: clear() on a frame::Raw: len only
frame_clear(f) == [f EXCEPT !.len = 0, !.raw = <<>>]

\* receive(): let mut raw = Raw::new()
fw_new(variant, frames, bus) ==
    [variant |-> variant, raw |-> NewFrame, frames |-> frames, bus |-> bus,
     got |-> <<>>, pc |-> "receiving", error |-> "None", read_failed |-> FALSE]

\* receive(), arm Ok(complete) with complete: a frame for this node is
\* decoded and returned, or warned about when it does not decode; a frame
\* for another node is dropped with raw.reset() (test_node) or raw.clear()
\* (poller)
fw_on_complete(s) ==
    IF frame_address(s.raw) = Some(NODE_ADDRESS) THEN
        LET packet == try_as_packet(s.raw) IN
        IF packet.status = "Panic" THEN [s EXCEPT !.pc = "panicked", !.error = "Panic"]
        ELSE IF packet.status = "Err" THEN s
        ELSE [s EXCEPT !.pc = "returned", !.got = Append(@, packet.value)]
    ELSE IF s.variant = "test_node" THEN [s EXCEPT !.raw = reset(s.raw)]
    ELSE [s EXCEPT !.raw = frame_clear(s.raw)]

\* receive(), arm Ok(()) of the read: raw.receive(buffer[0]), a panic on Err
fw_on_byte(s, byte) ==
    LET r == receive(s.raw, byte)
        t == [s EXCEPT !.raw = r.frame]
    IN  IF r.result = "OkFalse" THEN t
        ELSE IF r.result = "OkTrue" THEN fw_on_complete(t)
        ELSE [t EXCEPT !.pc = "panicked", !.error = r.result]

\* receive(), arm Err(error) of the read: raw.reset() in test_node, a panic
\* in poller
fw_on_read_error(s) ==
    IF s.variant = "test_node" THEN [s EXCEPT !.raw = reset(s.raw), !.read_failed = TRUE]
    ELSE [s EXCEPT !.pc = "panicked", !.error = "Read", !.read_failed = TRUE]

\* what the bus carries: polls of this node and of another, a full
\* TransmitData for the other node, a frame for this node with a message
\* type that does not decode, and a read that fails
PollOwn   == encode_frame(Packet(NODE_ADDRESS, PollRequest)).value.raw
PollOther == encode_frame(Packet(OTHER_ADDRESS, PollRequest)).value.raw
DataOther == encode_frame(Packet(OTHER_ADDRESS, TransmitData(Repeat(FILL, DATA_MAX_LEN)))).value.raw
BadOwn    == <<SYN, SYN, STX, UA_OFFSET + NODE_ADDRESS, FILL, ETX>>

BusItems == {PollOwn, PollOther, DataOther, BadOwn, <<READ_ERROR>>}

BusScripts == UNION {[1..n -> BusItems] : n \in 1..MaxBusFrames}

RECURSIVE BusBytes(_)
BusBytes(items) ==
    IF items = <<>> THEN <<>> ELSE Head(items) \o BusBytes(Tail(items))

InitFirmware ==
    /\ \E variant \in {"test_node", "poller"}, frames \in BusScripts :
           fw = fw_new(variant, frames, BusBytes(frames))
    /\ mon = <<>> /\ sim = <<>> /\ hub = <<>>
    /\ IdleRx /\ IdleCodec /\ IdleConn /\ IdleCtl /\ IdleLib

FwUnchanged == UNCHANGED <<rxVars, codecVars, connVars, ctlVars, libVars, mon, sim, hub>>

\* one turn of the loop of receive() with a read that gives a byte
FwReads ==
    /\ fw.pc = "receiving"
    /\ fw.bus # <<>>
    /\ Head(fw.bus) # READ_ERROR
    /\ fw' = fw_on_byte([fw EXCEPT !.bus = Tail(@)], Head(fw.bus))
    /\ FwUnchanged

\* one turn of the loop of receive() with a read that fails
FwReadFails ==
    /\ fw.pc = "receiving"
    /\ fw.bus # <<>>
    /\ Head(fw.bus) = READ_ERROR
    /\ fw' = fw_on_read_error([fw EXCEPT !.bus = Tail(@)])
    /\ FwUnchanged

\* main handled the packet and calls receive() again: a new Raw
FwCallsReceive ==
    /\ fw.pc = "returned"
    /\ fw' = [fw EXCEPT !.pc = "receiving", !.raw = NewFrame]
    /\ FwUnchanged

NextFirmware == FwReads \/ FwReadFails \/ FwCallsReceive

SpecFirmware == InitFirmware /\ [][NextFirmware]_vars

\* the packets of the frames for this node that decode, in order
RECURSIVE OwnPackets(_)
OwnPackets(frames) ==
    IF frames = <<>> THEN <<>>
    ELSE LET f == CompletedFrame(Head(frames)) IN
         (IF Head(frames) # <<READ_ERROR>>
             /\ frame_address(f) = Some(NODE_ADDRESS) /\ IsOk(try_as_packet(f))
          THEN <<try_as_packet(f).value>> ELSE <<>>) \o OwnPackets(Tail(frames))

FramesOnly == \A i \in 1..Len(fw.frames) : fw.frames[i] # <<READ_ERROR>>

\* C27: with frames only on the bus, the receive loops skip the frames for
\* other nodes and the frames that do not decode: Raw::receive never returns
\* an error (no panic), and every frame for this node is still returned
C27_LoopSkipsFrames ==
    FramesOnly =>
        /\ fw.pc # "panicked"
        /\ fw.bus = <<>> => fw.got = OwnPackets(fw.frames)

\* in test_node the polls of other nodes are skipped and this node's polls
\* returned
C27_TestNodeSkipsPolls ==
    (/\ fw.variant = "test_node"
     /\ \A i \in 1..Len(fw.frames) : fw.frames[i] \in {PollOwn, PollOther})
        => /\ fw.pc # "panicked"
           /\ fw.bus = <<>> => fw.got = OwnPackets(fw.frames)

-----------------------------------------------------------------------------
(* SpecConnection: the frame a Connection feeds *)

\* C28: Connection::receive never passes a byte to a completed frame:
\* whatever the receive calls, the cancellations and the end of the stream,
\* the frame a byte is fed to is not in state Received, Raw::receive does not
\* return AlreadyComplete, and a frame that completes is moved out, a fresh
\* one left in its place
C28_NeverFeedsCompleteFrame ==
    [][consumed' = consumed + 1 =>
        /\ conn.frame.receive_state # "Received"
        /\ receive(conn.frame, Head(stream)).result # "AlreadyComplete"
        /\ conn'.frame.receive_state # "Received"
        /\ receive(conn.frame, Head(stream)).result = "OkTrue" => conn'.frame = NewFrame]_vars

\* C28 witness: after a frame was returned, a later receive call read bytes
\* of the next frame and was cancelled
C28_Witness ==
    /\ Len(returned) = 1
    /\ conn.frame.len > 0
    /\ conn.pc = "idle"

-----------------------------------------------------------------------------
(* SpecSicDecode: USIC / SUSIC Configuration::decode on the body of an      *)
(* Initialization packet as received: cin.raw is NDP, transmit delay, count *)
(* and card-group bytes, possibly cut short or with more than 16 groups     *)

\* the card-group bytes that hold the 64 slots of a NodeCards
GROUPS_FOR_MAX_CARDS == MAX_CARDS \div 4

GroupCounts == {0, 1, GROUPS_FOR_MAX_CARDS, GROUPS_FOR_MAX_CARDS + 1, GROUPS_FOR_MAX_CARDS + 2}

\* a card-group byte: no card, an Input, an Output, an invalid type, four
\* Inputs, an Input in the last slot
GroupBytes == {0, 1, 2, 3, 85, 64}

SicBodies(kind) ==
    {<<SicNdp(kind), 1, 2, n>> \o Repeat(fill, n - 1) \o <<last>> :
        n \in GroupCounts \ {0}, fill \in {0, 85}, last \in GroupBytes}
    \cup {SubSeq(<<SicNdp(kind), 1, 2, 0>>, 1, k) : k \in 1..4}
    \cup {<<NDP_SMINI, 1, 2, 0>>}

InitSicDecode ==
    /\ \E kind \in {"Usic", "Susic"} :
         cin \in [kind : {kind}, raw : SicBodies(kind)]
    /\ cout = <<>>
    /\ cop = <<>>
    /\ IdleRx /\ IdleConn /\ IdleCtl /\ IdleLib /\ IdleTools

\* Configuration::decode(raw)
SicDecodeBody ==
    /\ cop = <<>>
    /\ cout' = sic_decode(cin.kind, cin.raw)
    /\ cop' = <<"decode">>
    /\ UNCHANGED <<cin, rxVars, connVars, ctlVars, libVars, toolVars>>

NextSicDecode == SicDecodeBody

SpecSicDecode == InitSicDecode /\ [][NextSicDecode]_vars

\* the slots of the body that hold a card, an invalid card type included
CardSlots(raw) == {j \in 0..(4 * (Len(raw) - 4) - 1) : SlotBits(raw, j) # 0}

\* the body holds an Input or Output card in a slot past the 64th and no
\* invalid card type before it
CardBeyondMax(raw) ==
    /\ Len(raw) > 4 + GROUPS_FOR_MAX_CARDS
    /\ \E j \in CardSlots(raw) :
          /\ j >= MAX_CARDS
          /\ SlotBits(raw, j) \in {CARD_INPUT, CARD_OUTPUT}
          /\ \A k \in CardSlots(raw) : k < j => SlotBits(raw, k) # 3

\* C26: decode of a body with more than 16 card-group bytes and an Input or
\* Output card past slot 64 returns Err(InvalidConfiguration(TooManyCards)),
\* and decode of a body shorter than the 3 header bytes returns an error:
\* neither panics
C26_DecodeRejectsOversize ==
    cop = <<"decode">> =>
        /\ CardBeyondMax(cin.raw)
              => (cout.status = "Err" /\ cout.value = <<"TooManyCards">>)
        /\ Len(cin.raw) < 3 => cout.status = "Err"

\* decode of a body with the 3 header bytes and cards in the first 64 slots
\* only returns a configuration or an error
C26_DecodeWithinSlots ==
    (/\ cop = <<"decode">>
     /\ Len(cin.raw) >= 3
     /\ \A j \in CardSlots(cin.raw) : j < MAX_CARDS \/ \E k \in CardSlots(cin.raw) : k < j /\ SlotBits(cin.raw, k) = 3)
        => cout.status # "Panic"

-----------------------------------------------------------------------------
(* SpecNodeSort: a valid NodeSort (cin) is encoded, and the bytes decoded   *)

\* every u16 of options
AllOptions == 0..65535

\* transmit delays whose two bytes differ, and the extremes
DelaySamples == {0, 1, 258, 65280, 65535}

\* valid NodeSorts of the five kinds, with sampled fields
NodeSortValues ==
    {r.value : r \in
        {cp_try_new("Cpnode", delay, 513, in, 2) : delay \in DelaySamples, in \in {0, 14}}
        \cup {cp_try_new("Cpmega", delay, 513, in, 0) : delay \in DelaySamples, in \in {0, 18}}
        \cup {r \in {smini_try_new(delay, pairs) : delay \in DelaySamples, pairs \in PairArrays} :
                IsOk(r)}
        \cup {sic_try_new(kind, delay, cards) :
                kind \in {"Usic", "Susic"}, delay \in {0, 258},
                cards \in {c \in ValidCardSlices : Len(c) \in {0, 1, 4, 5, 6, 9, MAX_CARDS}}}}

\* cin is a CPNODE or a CPMEGA with any of the 65536 values of options, or
\* one of NodeSortValues
InitNodeSort ==
    /\ \/ \E kind \in {"Cpnode", "Cpmega"}, options \in AllOptions :
              cin = cp_try_new(kind, 258, options, 2, 16).value
       \/ cin \in NodeSortValues
    /\ cout = <<>>
    /\ cop = <<>>
    /\ IdleRx /\ IdleConn /\ IdleCtl /\ IdleLib /\ IdleTools

\* s.encode()
NodeSortEncode ==
    /\ cop = <<>>
    /\ cout' = node_sort_encode(cin)
    /\ cop' = <<"encode">>
    /\ UNCHANGED <<cin, rxVars, connVars, ctlVars, libVars, toolVars>>

\* NodeSort::try_decode of the bytes encode wrote
NodeSortDecode ==
    /\ cop = <<"encode">>
    /\ cout' = node_sort_try_decode(cout)
    /\ cop' = <<"encode", "decode">>
    /\ UNCHANGED <<cin, rxVars, connVars, ctlVars, libVars, toolVars>>

NextNodeSort == NodeSortEncode \/ NodeSortDecode

SpecNodeSort == InitNodeSort /\ [][NextNodeSort]_vars

\* C30: NodeSort::try_decode(s.encode()) = s for every valid NodeSort s of
\* the five kinds; a CPNODE / CPMEGA keeps every bit of its options, and its
\* encoding has the transmit delay big-endian in bytes 1-2 and the options
\* little-endian in bytes 3-4
C30_NodeSortRoundTrip ==
    /\ cop = <<"encode", "decode">> => (IsOk(cout) /\ cout.value = cin)
    /\ (cop = <<"encode">> /\ cin.kind \in {"Cpnode", "Cpmega"}) =>
          /\ cout[2] = cin.transmit_delay \div 256
          /\ cout[3] = cin.transmit_delay % 256
          /\ cout[4] = cin.options % 256
          /\ cout[5] = cin.options \div 256

\* C30 witness: a CPMEGA whose options have reserved bits set, and bytes
\* that differ, came back from the decode
C30_Witness ==
    /\ cop = <<"encode", "decode">>
    /\ cin.kind = "Cpmega"
    /\ cin.options = 43605
    /\ IsOk(cout)
    /\ cout.value.options = 43605

-----------------------------------------------------------------------------
(* SpecHubFair: the hub with its connections registered (past hub.connect). *)
(* hub.lock is the holder of the Mutex around Inner ("none" when free),     *)
(* hub.waiters the tasks waiting for it in the order they asked (a tokio    *)
(* Mutex is granted first come, first served),                              *)
(* hub.chan[c] the mpsc channel of connection c (the sources of the frames  *)
(* queued), hub.sub the channel of the State monitor subscriber,            *)
(* hub.arrived the number of frames the connections have received from     *)
(* their peers and hub.task[c] where the task of run_connection is:         *)
(*   "select"     at tokio::select!, both branches pending                  *)
(*   "broadcast"  in broadcast, at self.inner.lock().await                  *)
(*   "sending"    in broadcast's loop, holding the lock; todo is the rest   *)
(*                of the iteration over inner.connections                   *)
(*   "publish"    in publish, at self.inner.lock().await                    *)
(*   "publishing" in publish's loop, holding the lock                       *)

MaxArrivals == 6

CHANNEL_BUFFER == 4

Connections == {"a", "b"}

\* the orders in which a HashMap of the connections in s may be iterated
Orders(s) ==
    {o \in [1..Cardinality(s) -> s] : \A i, j \in 1..Cardinality(s) : i # j => o[i] # o[j]}

hub_new ==
    [lock    |-> "none",
     waiters |-> <<>>,
     chan    |-> [c \in Connections |-> <<>>],
     sub     |-> <<>>,
     arrived |-> 0,
     task    |-> [c \in Connections |-> [pc |-> "select", todo |-> <<>>]]]

InitHub ==
    /\ hub = hub_new
    /\ mon = <<>> /\ sim = <<>> /\ fw = <<>>
    /\ IdleRx /\ IdleCodec /\ IdleConn /\ IdleCtl /\ IdleLib

HubUnchanged == UNCHANGED <<rxVars, codecVars, connVars, ctlVars, libVars, mon, sim, fw>>

\* run_connection, branch message = rx.recv(): Some(frame) is written to
\* the peer with connection.send(&frame).await, and the task is back at the
\* select
HubRecv(c) ==
    /\ hub.task[c].pc = "select"
    /\ hub.chan[c] # <<>>
    /\ hub' = [hub EXCEPT !.chan[c] = Tail(@)]
    /\ HubUnchanged

\* run_connection, branch a = connection.receive(): Ok(frame), on to
\* hub.broadcast(name, message).await
HubReceives(c) ==
    /\ hub.task[c].pc = "select"
    /\ hub.arrived < MaxArrivals
    /\ hub' = [hub EXCEPT !.arrived = @ + 1, !.task[c].pc = "broadcast",
                          !.waiters = Append(@, c)]
    /\ HubUnchanged

\* broadcast: let mut inner = self.inner.lock().await
BroadcastLocks(c) ==
    /\ hub.task[c].pc = "broadcast"
    /\ hub.lock = "none"
    /\ Head(hub.waiters) = c
    /\ \E order \in Orders(Connections \ {c}) :
          hub' = [hub EXCEPT !.lock = c, !.waiters = Tail(@),
                             !.task[c] = [pc |-> "sending", todo |-> order]]
    /\ HubUnchanged

\* broadcast: channel.send(message.clone()).await for the next destination,
\* which completes when the channel holds fewer than CHANNEL_BUFFER
\* messages; after the last destination drop(inner), on to
\* self.publish(..).await
BroadcastSends(c) ==
    /\ hub.task[c].pc = "sending"
    /\ LET destination == Head(hub.task[c].todo)
           rest == Tail(hub.task[c].todo)
       IN  /\ Len(hub.chan[destination]) < CHANNEL_BUFFER
           /\ hub' = IF rest # <<>>
                     THEN [hub EXCEPT !.chan[destination] = Append(@, c),
                                      !.task[c].todo = rest]
                     ELSE [hub EXCEPT !.chan[destination] = Append(@, c),
                                      !.task[c] = [pc |-> "publish", todo |-> <<>>],
                                      !.lock = "none", !.waiters = Append(@, c)]
    /\ HubUnchanged

\* publish: let mut inner = self.inner.lock().await
PublishLocks(c) ==
    /\ hub.task[c].pc = "publish"
    /\ hub.lock = "none"
    /\ Head(hub.waiters) = c
    /\ hub' = [hub EXCEPT !.lock = c, !.waiters = Tail(@), !.task[c].pc = "publishing"]
    /\ HubUnchanged

\* publish: channel.send(..).await to the subscriber, then the lock is
\* dropped with the end of publish and the task is back at the select
PublishSends(c) ==
    /\ hub.task[c].pc = "publishing"
    /\ Len(hub.sub) < CHANNEL_BUFFER
    /\ hub' = [hub EXCEPT !.sub = Append(@, c), !.lock = "none", !.task[c].pc = "select"]
    /\ HubUnchanged

\* State::run_receiver: receiver.recv().await gives a message
SubscriberReceives ==
    /\ hub.sub # <<>>
    /\ hub' = [hub EXCEPT !.sub = Tail(@)]
    /\ HubUnchanged

\* the steps of the task of connection c that wait for nothing outside the hub
TaskStep(c) ==
    \/ HubRecv(c)
    \/ BroadcastLocks(c)
    \/ BroadcastSends(c)
    \/ PublishLocks(c)
    \/ PublishSends(c)

NextHub ==
    \/ \E c \in Connections : TaskStep(c) \/ HubReceives(c)
    \/ SubscriberReceives

\* the tokio runtime polls every task that can make progress, and the
\* subscriber keeps receiving
SpecHubFair ==
    /\ InitHub /\ [][NextHub]_vars
    /\ \A c \in Connections : WF_vars(TaskStep(c))
    /\ WF_vars(SubscriberReceives)

\* the broadcast of connection c holds the lock and waits for space in the
\* channel of its next destination
BlockedOnSend(c) ==
    /\ hub.task[c].pc = "sending"
    /\ Len(hub.chan[Head(hub.task[c].todo)]) = CHANNEL_BUFFER

\* C24: the hub cannot deadlock: a broadcast that holds the hub lock while
\* it waits for space in a destination's channel is always eventually
\* unblocked, also when the destination's task itself waits for the lock to
\* broadcast a frame it received
C24_BroadcastUnblocks ==
    \A c \in Connections : BlockedOnSend(c) ~> ~BlockedOnSend(c)

\* the state the hub does not leave: a holds the lock and waits for space
\* in the channel of b, whose task waits for the lock
C24_NoLockCycle ==
    \A c \in Connections :
        BlockedOnSend(c) => hub.task[Head(hub.task[c].todo)].pc \notin {"broadcast", "publish"}

-----------------------------------------------------------------------------
(* SpecLateReply: the controller's polling loop on a bus whose nodes answer *)
(* only the PollRequests addressed to them, in time or late. The visit of a *)
(* node is split where run_connection awaits the answer.                    *)
(* stream.unread is the frames that reached the controller's connection and *)
(* were not read yet, stream.owed the addresses polled and not yet answered *)
(* by their node.                                                           *)

\* the nodes a file gave the State (From<file::Node>)
NodesFromFile(present) ==
    [a \in NodeAddrs |-> IF a \in present THEN node_new(a, CtlSort(a)) ELSE NoNode]

InitLateReply ==
    /\ \E present \in SUBSET NodeAddrs : nodes = NodesFromFile(present)
    /\ ctl = [pc |-> "tick", i |-> 0, polls |-> 0, resets |-> 0]
    /\ wire = <<>>
    /\ stream = [unread |-> <<>>, owed |-> {}]
    /\ conn = <<>> /\ consumed = <<>> /\ returned = <<>>
    /\ IdleRx /\ IdleCodec /\ IdleLib /\ IdleTools

LateUnchanged ==
    UNCHANGED <<rxVars, codecVars, conn, consumed, returned, libVars, toolVars>>

\* period.tick().await completes: the for loop starts
LateTick         == Tick /\ UNCHANGED stream

\* nodes[i] is None
LateSkipNode     == SkipNode /\ UNCHANGED stream

\* the Initialization (if required) and the PollRequest are sent; the loop
\* awaits timeout(TIMEOUT, connection.receive())
PollSent ==
    /\ Polling
    /\ wire' = wire \o PollSends(nodes[ctl.i])
    /\ ctl' = [ctl EXCEPT !.pc = "waiting", !.polls = ctl.polls + 1]
    /\ stream' = [stream EXCEPT !.owed = @ \cup {nodes[ctl.i].address}]
    /\ UNCHANGED nodes
    /\ LateUnchanged

\* a polled node answers its PollRequest with a ReceiveData packet, before
\* or after the controller stopped waiting for it
NodeReplies ==
    /\ \E a \in stream.owed :
        stream' = [unread |-> Append(stream.unread,
                                     encode_frame(Packet(a, ReceiveData(<<1>>))).value),
                   owed   |-> stream.owed \ {a}]
    /\ UNCHANGED <<nodes, ctl, wire>>
    /\ LateUnchanged

\* no frame within TIMEOUT: arm Err(_), then the outputs are sent
ReceiveTimesOut ==
    /\ ctl.pc = "waiting"
    /\ stream.unread = <<>>
    /\ LET node  == nodes[ctl.i]
           after == on_timeout(node)
       IN  /\ nodes' = [nodes EXCEPT ![ctl.i] = after]
           /\ wire' = wire \o <<WireReceived(node, "Timeout", NoAddress)>>
                          \o TransmitSend(after)
    /\ ctl' = AfterNode([ctl EXCEPT !.pc = "polling"])
    /\ UNCHANGED stream
    /\ LateUnchanged

\* connection.receive() gives the oldest unread frame: arm Ok(Ok(frame)),
\* then the outputs are sent
ReceiveGivesFrame ==
    /\ ctl.pc = "waiting"
    /\ stream.unread # <<>>
    /\ LET node    == nodes[ctl.i]
           decoded == try_as_packet(Head(stream.unread))
       IN  IF ~IsOk(decoded)
           THEN /\ wire' = wire \o <<WireReceived(node, "BadFrame", NoAddress)>>
                                \o TransmitSend(node)
                /\ ctl' = AfterNode([ctl EXCEPT !.pc = "polling"])
                /\ UNCHANGED nodes
           ELSE LET packet == decoded.value
                    after  == on_packet(node, packet)
                    got    == WireReceived(node, packet.payload.kind, packet.address)
                IN  IF after.panic
                    THEN /\ wire' = Append(wire, got)
                         /\ ctl' = [ctl EXCEPT !.pc = "panicked"]
                         /\ UNCHANGED nodes
                    ELSE /\ wire' = wire \o <<got>> \o TransmitSend(after.node)
                         /\ ctl' = AfterNode([ctl EXCEPT !.pc = "polling"])
                         /\ nodes' = [nodes EXCEPT ![ctl.i] = after.node]
    /\ stream' = [stream EXCEPT !.unread = Tail(@)]
    /\ LateUnchanged

NextLateReply ==
    \/ LateTick
    \/ LateSkipNode
    \/ PollSent
    \/ NodeReplies
    \/ ReceiveTimesOut
    \/ ReceiveGivesFrame

SpecLateReply == InitLateReply /\ [][NextLateReply]_vars

\* the receives that gave a packet of another node than the one polled
Misread ==
    {k \in 1..Len(wire) : /\ wire[k].dir = "recv"
                          /\ wire[k].from # NoAddress
                          /\ wire[k].from # wire[k].address}

\* C25: with one controller and nodes that only answer their own polls,
\* in time or late, a ReceiveData of node A that arrives after A's poll
\* timed out is never taken as the answer to a later poll of another node B,
\* and the controller never reaches the panic 'Another controller exists on
\* the CMRInet'
C25_LateReplyNotMisread ==
    /\ Misread = {}
    /\ ctl.pc # "panicked"

\* the controller takes a packet of another node only after a poll timed
\* out: while every node answers in time it takes each answer as the
\* answer of the node it polled
C25_TimelyRepliesAttributed ==
    Misread # {} =>
        \E k \in 1..Len(wire) : wire[k].dir = "recv" /\ wire[k].kind = "Timeout"

-----------------------------------------------------------------------------
(* SpecRawPacket: packet::Raw as the struct it is (raw[0..258] and len),    *)
(* made by new or try_from, changed by push, push_all and clear, and read   *)
(* by body and try_as_raw_frame. obj is the value, ret what the last call   *)
(* returned, calls the calls made.                                          *)

\* the slices given to TryFrom<&[u8]>
TryFromSlices ==
    {<<>>, <<UA_OFFSET>>, <<UA_OFFSET, MT_P>>, <<UA_OFFSET, MT_T, 1, SYN>>,
     <<UA_OFFSET, 0, 1>>, <<0, MT_T>>}

\* TryFrom<&[u8]> for packet::Raw: the struct it builds
raw_struct_try_from(value) ==
    LET checked == raw_packet_try_from(value) IN
    IF ~IsOk(checked) THEN checked
    ELSE Ok([kind |-> "Raw",
             raw  |-> value \o Repeat(0, PACKET_MAX_LEN - Len(value)),
             len  |-> Len(value)])

\* packet::Raw::body: &self.raw[2..self.len()], a range whose start is
\* after its end panics
raw_body(b) ==
    IF 2 > b.len THEN [obj |-> b, result |-> Panic]
    ELSE [obj |-> b, result |-> Ok(SubSeq(b.raw, 3, b.len))]

\* packet::Raw::try_as_raw_frame on the struct: raw[0] and raw[1] are read
\* from the array whatever len is
raw_struct_try_as_raw_frame(b) ==
    LET address      == try_from_unit_address(b.raw[1])
        message_type == check_message_type(b.raw[2])
    IN  IF ~IsOk(address) THEN [obj |-> b, result |-> address]
        ELSE IF ~IsOk(message_type) THEN [obj |-> b, result |-> message_type]
        ELSE LET body == raw_body(b).result IN
             IF body.status = "Panic" THEN [obj |-> b, result |-> Panic]
             ELSE LET pushed == PushAll(begin(NewFrame, as_unit_address(address.value),
                                              message_type.value), body.value)
                  IN  IF pushed.result = "Panic" THEN [obj |-> b, result |-> Panic]
                      ELSE LET finished == finish(pushed.frame) IN
                           IF finished.result = "Full" THEN [obj |-> b, result |-> Panic]
                           ELSE [obj |-> b, result |-> Ok(finished.frame)]

InitRawPacket ==
    /\ obj \in {Raw_new} \cup
               {raw_struct_try_from(v).value :
                    v \in {s \in TryFromSlices : IsOk(raw_struct_try_from(s))}}
    /\ ret = Ok(<<>>)
    /\ calls = <<>>
    /\ IdleRx /\ IdleCodec /\ IdleConn /\ IdleCtl /\ IdleTools

RawPush == \E value \in PushedBytes \cup {UA_OFFSET, MT_T} :
    /\ Len(calls) < MaxCalls
    /\ Called(buf_push(obj, value), Call("push", 0, value, <<>>))

RawPushAll == \E items \in PushedSlices \cup {<<UA_OFFSET, MT_R>>} :
    /\ Len(calls) < MaxCalls
    /\ Called(buf_push_all(obj, items), Call("push_all", 0, 0, items))

RawClear ==
    /\ Len(calls) < MaxCalls
    /\ Called(buf_clear(obj), Call("clear", 0, 0, <<>>))

RawBody ==
    /\ Len(calls) < MaxCalls
    /\ Called(raw_body(obj), Call("body", 0, 0, <<>>))

RawTryAsRawFrame ==
    /\ Len(calls) < MaxCalls
    /\ Called(raw_struct_try_as_raw_frame(obj), Call("try_as_raw_frame", 0, 0, <<>>))

NextRawPacket == RawPush \/ RawPushAll \/ RawClear \/ RawBody \/ RawTryAsRawFrame

SpecRawPacket == InitRawPacket /\ [][NextRawPacket]_vars

\* C38: body() and try_as_raw_frame() return without panicking for every
\* packet::Raw reachable through new, push, push_all, clear and try_from,
\* also when it holds fewer than 2 bytes (body() is then empty)
C38_BodyNeverPanics ==
    /\ ret.status # "Panic"
    /\ (calls # <<>> /\ calls[Len(calls)].op = "body" /\ obj.len < 2)
           => ret = Ok(<<>>)

\* body() and try_as_raw_frame() of a packet::Raw that holds at least 2
\* bytes return without panicking
C38_BodyOfTwoBytesReturns ==
    (calls # <<>> /\ calls[Len(calls)].op \in {"body", "try_as_raw_frame"} /\ obj.len >= 2)
        => ret.status # "Panic"

-----------------------------------------------------------------------------
(* SpecSminiFlag: SminiConfiguration::decode over count bytes that differ   *)
(* from the number of pairs that follow, and over slices cut inside the     *)
(* oscillating pairs.                                                       *)

\* the values of the count byte (byte 3)
CountBytes == {0, 1, 2, 255}

\* the lengths of the slice given to decode
SminiCuts == {4, 5, 9, 10}

InitSminiFlag ==
    /\ cin \in [transmit_delay : {258}, count : CountBytes, cut : SminiCuts,
                oscillating_pairs : PairArrays]
    /\ cout = <<>>
    /\ cop = <<>>
    /\ IdleRx /\ IdleConn /\ IdleCtl /\ IdleLib /\ IdleTools

\* SminiConfiguration::decode(raw)
SminiFlagDecode ==
    /\ cop = <<>>
    /\ cout' = smini_decode(SminiRaw(cin))
    /\ cop' = <<"decode">>
    /\ UNCHANGED <<cin, rxVars, connVars, ctlVars, libVars, toolVars>>

NextSminiFlag == SminiFlagDecode

SpecSminiFlag == InitSminiFlag /\ [][NextSminiFlag]_vars

\* C35: SMINI decode uses byte 3 only as a presence flag: non-zero with
\* fewer than six pair bytes after it gives TooShort; non-zero with six
\* pair bytes gives, when it decodes, those pairs and oscillating_count =
\* (their set bits) / 2 whatever byte 3 holds; zero gives all-zero pairs
C35_CountByteIsFlag ==
    cop = <<"decode">> =>
        /\ (cin.count # 0 /\ cin.cut < 10) => cout = Err(<<"TooShort">>)
        /\ (cin.count # 0 /\ cin.cut = 10) =>
              /\ IsOk(cout) <=> RunsEven(cin.oscillating_pairs)
              /\ IsOk(cout) =>
                    /\ cout.value.oscillating_pairs = cin.oscillating_pairs
                    /\ 2 * cout.value.oscillating_count = SetBits(cin.oscillating_pairs)
        /\ cin.count = 0 =>
              /\ IsOk(cout)
              /\ cout.value.oscillating_pairs = Repeat(0, 6)
              /\ cout.value.oscillating_count = 0

\* C35 witness: a count byte of 255 before six pair bytes holding one pair
\* decoded to an oscillating_count of 1
C35_Witness ==
    /\ cop = <<"decode">>
    /\ cin.count = 255
    /\ cin.cut = 10
    /\ IsOk(cout)
    /\ cout.value.oscillating_count = 1

-----------------------------------------------------------------------------
(* The monitor's Node::has_been_seen, in SpecMonitor *)

\* monitor Node::has_been_seen: statistics.packets().0 > 0, the count of
\* the current second
has_been_seen(node) == node.statistics.packets.current > 0

\* the packets counted for the node since it was created
PacketsSinceCreated(node) == node.statistics.packets.total

\* C34: has_been_seen() is true exactly when the node has received at
\* least one packet since it was created or reset; once true it stays true
\* across any number of tick() calls
C34_SeenOnceSeenForEver ==
    \A a \in NodeAddrs :
        has_been_seen(mon.state.nodes[a]) <=> PacketsSinceCreated(mon.state.nodes[a]) > 0

\* until the first tick() after a packet, has_been_seen() tells whether the
\* node has received a packet
C34_SeenWithinTheSecond ==
    mon.ticks = 0 =>
        \A a \in NodeAddrs :
            has_been_seen(mon.state.nodes[a]) <=> PacketsSinceCreated(mon.state.nodes[a]) > 0

-----------------------------------------------------------------------------
(* SpecStatistics: one monitor Statistics under got_packet, got_bad_packet  *)
(* and tick. obj is the Statistics, ret what the last call did (returned or *)
(* panicked), calls the calls made: [op, kind, times].                      *)

MaxStatCalls == 5

StatCall(op, kind, times) == [op |-> op, kind |-> kind, times |-> times]

\* the Statistics after n got_packet calls with a PollRequest and no tick,
\* for n <= U16_MAX
StatisticsAfterPolls(n) ==
    [statistics_new EXCEPT
        !.packets      = [current |-> n, total |-> n, readings |-> <<>>],
        !.poll_packets = [current |-> n, total |-> n, readings |-> <<>>]]

\* the number of packets the monitor has counted in the second when the
\* calls of the model start: none, or one less than a u16 holds
CountedBefore == {0, U16_MAX - 1}

InitStatistics ==
    /\ \E n \in CountedBefore :
        /\ obj = StatisticsAfterPolls(n)
        /\ calls = IF n = 0 THEN <<>> ELSE <<StatCall("got_packet", "PollRequest", n)>>
    /\ ret = Ok(<<>>)
    /\ IdleRx /\ IdleCodec /\ IdleConn /\ IdleCtl /\ IdleTools

StatUnchanged == UNCHANGED <<rxVars, codecVars, connVars, ctlVars, toolVars>>

StatCalling ==
    /\ ret.status # "Panic"
    /\ Len(calls) < MaxStatCalls

\* self.packets.0 += 1 on a count of u16::MAX: a build with overflow checks
\* panics there, one without wraps to 0
StatCounts(after, call) ==
    /\ calls' = Append(calls, call)
    /\ \/ /\ obj' = after
          /\ ret' = Ok(<<>>)
       \/ /\ obj.packets.current = U16_MAX
          /\ obj' = obj
          /\ ret' = Panic
    /\ StatUnchanged

\* Statistics::got_packet
StatGotPacket == \E pl \in {PollRequest, ReceiveData(<<>>), TransmitData(<<1>>),
                            Initialization(CtlSort(0))} :
    /\ StatCalling
    /\ StatCounts(statistics_got_packet(obj, Packet(0, pl)),
                  StatCall("got_packet", pl.kind, 1))

\* Statistics::got_bad_packet
StatGotBadPacket ==
    /\ StatCalling
    /\ StatCounts(statistics_got_bad_packet(obj), StatCall("got_bad_packet", "", 1))

\* Statistics::tick
StatTick ==
    /\ StatCalling
    /\ obj' = statistics_tick(obj)
    /\ ret' = Ok(<<>>)
    /\ calls' = Append(calls, StatCall("tick", "", 1))
    /\ StatUnchanged

NextStatistics == StatGotPacket \/ StatGotBadPacket \/ StatTick

SpecStatistics == InitStatistics /\ [][NextStatistics]_vars

RECURSIVE SumSeq(_)
SumSeq(s) == IF s = <<>> THEN 0 ELSE Head(s) + SumSeq(Tail(s))

\* the most packets counted between two ticks in a log of calls
RECURSIVE BusiestFrom(_, _, _)
BusiestFrom(log, run, best) ==
    IF log = <<>> THEN (IF run > best THEN run ELSE best)
    ELSE IF Head(log).op = "tick"
    THEN BusiestFrom(Tail(log), 0, IF run > best THEN run ELSE best)
    ELSE BusiestFrom(Tail(log), run + Head(log).times, best)

BusiestSecond(log) == BusiestFrom(log, 0, 0)

\* the packets total is the sum of the totals of the five sorts, and every
\* total is its current count plus what tick moved into its readings
TotalsAddUp(st) ==
    /\ st.packets.total =
          st.bad_packets.total + st.initialization_packets.total
              + st.poll_packets.total + st.receive_data_packets.total
              + st.transmit_data_packets.total
    /\ \A k \in DOMAIN st : st[k].total = st[k].current + SumSeq(st[k].readings)

\* the tick of this step zeroed every current count and kept every total
TickKeepsTotals ==
    \A k \in DOMAIN obj : obj'[k].current = 0 /\ obj'[k].total = obj[k].total

-----------------------------------------------------------------------------
(* SpecNodes: run_connection of cmri_tools/src/bin/nodes/state.rs, the      *)
(* simulator of many nodes, started with or without a nodes file.           *)
(* sim holds the nodes of the State (sort, inputs, outputs), the frames     *)
(* connection.receive() gave it (received), the frames it sent (sent), the  *)
(* addresses an Initialization packet was received for (initialized) and    *)
(* the task's fate (pc).                                                    *)

\* NodeConfiguration::output_bytes of a node sort
output_bytes(sort) ==
    IF sort.kind \in {"Cpnode", "Cpmega"} THEN sort.output_bytes
    ELSE IF sort.kind = "Smini" THEN 6
    ELSE Cardinality({i \in 1..Len(sort.cards) : sort.cards[i] = CARD_OUTPUT})
            * (IF sort.kind = "Usic" THEN 3 ELSE 4)

\* nodes Node::new
nodes_node_new(address) ==
    [address |-> address, sort |-> None, inputs |-> <<>>, outputs |-> <<>>]

\* State::load_nodes with a file that holds the nodes at the addresses
\* loaded: a node without a sort gets the sort of the file
load_nodes(ns, loaded) ==
    [a \in DOMAIN ns |->
        IF a \in loaded /\ ns[a].sort.status = "None"
        THEN [ns[a] EXCEPT !.sort = Some(CtlSort(a))]
        ELSE ns[a]]

\* run_connection, arm Ok(packet)
nodes_on_packet(s, packet) ==
    LET a    == packet.address
        node == s.nodes[a]
    IN  IF packet.payload.kind = "Initialization"
        THEN [s EXCEPT !.nodes[a] =
                 [node EXCEPT !.inputs  = data_new(input_bytes(packet.payload.node_sort)),
                              !.outputs = data_new(output_bytes(packet.payload.node_sort)),
                              !.sort    = Some(packet.payload.node_sort)],
                       !.initialized = @ \cup {a}]
        ELSE IF packet.payload.kind = "PollRequest"
        THEN IF node.sort.status = "Some"
             THEN [s EXCEPT !.sent = Append(@,
                      encode_frame(Packet(a, ReceiveData(node.inputs))).value)]
             ELSE s
        ELSE IF packet.payload.kind = "TransmitData"
        THEN [s EXCEPT !.nodes[a].outputs = packet.payload.data]
        ELSE [s EXCEPT !.pc = "panicked"]

\* run_connection, arm Ok(frame): a frame that does not decode is logged, a
\* decoding that panics ends the task
nodes_on_frame(s, f) ==
    LET packet == try_as_packet(f) IN
    IF packet.status = "Panic" THEN [s EXCEPT !.pc = "panicked"]
    ELSE IF packet.status = "Err" THEN s
    ELSE nodes_on_packet(s, packet.value)

\* State::default(), then load_nodes when the program was started with a
\* nodes file
InitNodes ==
    /\ \E loaded \in SUBSET NodeAddrs :
        sim = [nodes |-> load_nodes([a \in NodeAddrs |-> nodes_node_new(a)], loaded),
               received |-> <<>>, sent |-> <<>>, initialized |-> {}, pc |-> "running"]
    /\ mon = <<>>
    /\ fw = <<>> /\ hub = <<>>
    /\ IdleRx /\ IdleCodec /\ IdleConn /\ IdleCtl /\ IdleLib

\* connection.receive() gave a frame: one turn of the loop
NodesReceives == \E f \in SimFrames :
    /\ sim.pc = "running"
    /\ Len(sim.received) < MaxFrames
    /\ sim' = [nodes_on_frame(sim, f) EXCEPT !.received = Append(@, f)]
    /\ SimUnchanged

\* connection.receive() gave an error: std::process::exit(1)
NodesReadError ==
    /\ sim.pc = "running"
    /\ sim' = [sim EXCEPT !.pc = "exited"]
    /\ SimUnchanged

NextNodes == NodesReceives \/ NodesReadError

SpecNodes == InitNodes /\ [][NextNodes]_vars

\* the packet of the frame the step handles
HandledPacket == try_as_packet(sim'.received[Len(sim'.received)])

\* the step handles a PollRequest for a node
HandlesPollOf(a) ==
    /\ Len(sim'.received) = Len(sim.received) + 1
    /\ IsOk(HandledPacket)
    /\ HandledPacket.value.address = a
    /\ HandledPacket.value.payload.kind = "PollRequest"

\* C36: the simulator never sends a ReceiveData frame for a node before it
\* has received an Initialization packet addressed to that node; once it
\* has, every PollRequest addressed to the node is answered with exactly
\* one ReceiveData frame carrying the node's current inputs
C36_AnswersOnlyAfterInitialization ==
    [][/\ sim'.sent # sim.sent =>
             \E a \in sim.initialized : HandlesPollOf(a)
       /\ \A a \in sim.initialized :
             HandlesPollOf(a) =>
                sim'.sent = Append(sim.sent,
                    encode_frame(Packet(a, ReceiveData(sim.nodes[a].inputs))).value)]_vars

\* started without a nodes file, the simulator sends nothing for a node
\* before an Initialization packet addressed to it
C36_WithoutFileWaitsForInitialization ==
    [][(\A a \in NodeAddrs : a \notin sim.initialized => sim.nodes[a].sort.status = "None")
          => (sim'.sent # sim.sent => \E a \in sim.initialized : HandlesPollOf(a))]_vars

\* the simulator of one node (SpecSimulator) becomes initialised only by an
\* Initialization packet addressed to it, sends only when it is initialised
\* and handles a PollRequest of its own, and then sends one ReceiveData
\* frame with its inputs
C36_NodeAnswersOnlyAfterInitialization ==
    [][/\ (sim'.initialised /\ ~sim.initialised) =>
             /\ Len(sim'.received) = Len(sim.received) + 1
             /\ IsOk(HandledPacket)
             /\ HandledPacket.value.address = sim.address
             /\ HandledPacket.value.payload.kind = "Initialization"
       /\ sim'.sent # sim.sent => (sim.initialised /\ HandlesPollOf(sim.address))
       /\ (sim.initialised /\ HandlesPollOf(sim.address)) =>
             sim'.sent = Append(sim.sent,
                 encode_frame(Packet(sim.address, ReceiveData(sim.inputs))).value)]_vars

-----------------------------------------------------------------------------
(* SpecCycleFair: the controller's polling loop on the bus of SpecLateReply *)
(* (no I/O error, nodes that answer their own polls in time, late or        *)
(* never), cycle after cycle. wire is the log of the current cycle and      *)
(* ctl.polls the polls sent in it: both start again at each tick.           *)

\* period.tick().await completes: a cycle starts
CycleTick ==
    /\ ctl.pc = "tick"
    /\ ctl' = [ctl EXCEPT !.pc = "polling", !.i = 0, !.polls = 0]
    /\ wire' = <<>>
    /\ UNCHANGED <<nodes, stream>>
    /\ LateUnchanged

\* a step of the controller's task
ControllerStep ==
    \/ CycleTick
    \/ LateSkipNode
    \/ PollSent
    \/ ReceiveTimesOut
    \/ ReceiveGivesFrame

NextCycle ==
    \/ ControllerStep
    \/ NodeReplies

\* the runtime keeps running the controller's task, whose timer and timeout
\* fire; no node has to answer
SpecCycleFair ==
    /\ InitLateReply /\ [][NextCycle]_vars
    /\ WF_vars(ControllerStep)

\* a cycle starts with a node configured at address a
CycleStartsWith(a) ==
    /\ ctl.pc = "polling"
    /\ ctl.i = 0
    /\ wire = <<>>
    /\ nodes[a].present

\* the cycle is over; in it node a was sent a PollRequest and then a
\* TransmitData packet with its outputs
CycleServed(a) ==
    /\ ctl.pc = "tick"
    /\ \E k \in PollsTo(a) : \E j \in (k + 1)..Len(wire) :
          /\ wire[j].dir = "send"
          /\ wire[j].kind = "TransmitData"
          /\ wire[j].address = a
          /\ wire[j].packet.payload.data = nodes[a].outputs

\* C33: with no transport I/O error the controller polls every configured
\* node in every cycle: a node that does not answer costs the timeout and
\* never prevents the polling of the other nodes, and every node is sent a
\* TransmitData packet with its current outputs in every cycle, whether or
\* not its poll was answered
C33_EveryCycleServesEveryNode ==
    \A a \in NodeAddrs : CycleStartsWith(a) ~> CycleServed(a)

\* every cycle serves every node unless the loop panics on a packet of
\* another node than the one polled
C33_ServesEveryNodeUnlessPanic ==
    \A a \in NodeAddrs : CycleStartsWith(a) ~> (CycleServed(a) \/ ctl.pc = "panicked")

-----------------------------------------------------------------------------
(* SpecHub: the life of the hub's connections. Each connection's task runs  *)
(* run_connection: connect, the select! loop (write a frame of its channel, *)
(* or read a frame and broadcast it, or fail to read, or find its channel   *)
(* closed), errored, disconnect. The State's receiver takes the subscriber  *)
(* messages.                                                                *)
(* A connection is a task; hub.name gives its name. Inner::connections is   *)
(* a map from name to the sender of a channel: hub.connections gives for    *)
(* each name the task whose channel is registered under it (NoTask for      *)
(* none), hub.chan the channels' contents and hub.open whether a channel's  *)
(* sender is still in the map. hub.sub is the subscriber's channel,         *)
(* hub.cstate the connections of the State, hub.task the tasks. hub.seen    *)
(* (the messages the receiver took), hub.enq (the frames put into           *)
(* channels), hub.reg (the tasks registered when a frame's broadcast took   *)
(* the lock) and hub.handled (the frames whose broadcast call returned)     *)
(* record what happened. The field from of a message is the task that       *)
(* published it; the program's messages carry the name only.                *)

MaxHubFrames == 1

HubNames == {"a", "b"}

HubTasks == {1, 2}

NoTask == 0

\* SubscriberMessage
SubscriberMessage(kind, name, id, from) ==
    [kind |-> kind, name |-> name, id |-> id, from |-> from]

\* Hub::broadcast: the names of the connections the frame is sent to
broadcast_destinations(connections, source) ==
    {n \in DOMAIN connections : connections[n] # NoTask /\ n # source}

\* State::run_receiver: what a message does to State::connections ("None"
\* for a name that is not in the map)
state_on_message(cs, m) ==
    IF m.kind = "Connected" THEN [cs EXCEPT ![m.name] = "Connected"]
    ELSE IF m.kind = "Disconnected"
    THEN IF cs[m.name] \notin {"None", "Errored"}
         THEN [cs EXCEPT ![m.name] = "Disconnected"]
         ELSE cs
    ELSE IF m.kind = "Errored" THEN [cs EXCEPT ![m.name] = "Errored"]
    ELSE cs

\* a task about to publish a message and then go on at pc next
Publishing(t, kind, next) == [t EXCEPT !.pc = "publish", !.msg = kind, !.next = next]

\* the channels whose sender is in the map
SendersOf(connections) ==
    [t \in HubTasks |-> \E n \in DOMAIN connections : connections[n] = t]

InitHubLife ==
    /\ \E names \in [HubTasks -> HubNames] :
        hub = [name |-> names, lock |-> NoTask,
               connections |-> [n \in HubNames |-> NoTask],
               chan |-> [t \in HubTasks |-> <<>>],
               open |-> [t \in HubTasks |-> FALSE],
               sub |-> <<>>,
               cstate |-> [n \in HubNames |-> "None"],
               seen |-> <<>>, enq |-> <<>>, reg |-> <<>>, handled |-> {},
               task |-> [t \in HubTasks |->
                           [pc |-> "new", msg |-> "Connected", next |-> "select",
                            frame |-> 0, todo |-> <<>>, result |-> "Ok"]]]
    /\ mon = <<>> /\ sim = <<>> /\ fw = <<>>
    /\ IdleRx /\ IdleCodec /\ IdleConn /\ IdleCtl /\ IdleLib

\* hub.connect(name): the channel is made and its sender inserted under the
\* task's name, which drops a sender that was there; then Connected is
\* published
ConnectionConnects(t) ==
    /\ hub.task[t].pc = "new"
    /\ hub.lock = NoTask
    /\ LET connections == [hub.connections EXCEPT ![hub.name[t]] = t] IN
       hub' = [hub EXCEPT !.connections = connections,
                          !.open = SendersOf(connections),
                          !.task[t] = Publishing(@, "Connected", "select")]
    /\ HubUnchanged

\* Hub::publish: self.inner.lock().await
ConnectionPublishLocks(t) ==
    /\ hub.task[t].pc = "publish"
    /\ hub.lock = NoTask
    /\ hub' = [hub EXCEPT !.lock = t, !.task[t].pc = "publishing"]
    /\ HubUnchanged

\* Hub::publish: the message is sent to the subscriber when its channel has
\* space, the guard is dropped; the caller goes on
ConnectionPublishSends(t) ==
    /\ hub.task[t].pc = "publishing"
    /\ Len(hub.sub) < CHANNEL_BUFFER
    /\ LET kind == hub.task[t].msg
           id == IF kind = "Frame" THEN hub.task[t].frame ELSE 0 IN
       hub' = [hub EXCEPT
                 !.sub = Append(@, SubscriberMessage(kind, hub.name[t], id, t)),
                 !.lock = NoTask,
                 !.handled = IF kind = "Frame" THEN @ \cup {id} ELSE @,
                 !.task[t].pc = hub.task[t].next]
    /\ HubUnchanged

\* select!, branch rx.recv() with Some(frame): the frame is written to the
\* connection; a write error that is not a disconnect is published as
\* Errored, a disconnect ends the loop with Ok(())
ConnectionWrites(t) ==
    /\ hub.task[t].pc = "select"
    /\ hub.chan[t] # <<>>
    /\ \E outcome \in {"written", "error", "disconnected"} :
        hub' = [hub EXCEPT
                  !.chan[t] = Tail(@),
                  !.task[t] = IF outcome = "written" THEN @
                              ELSE IF outcome = "error"
                              THEN Publishing(@, "Errored", "select")
                              ELSE [@ EXCEPT !.pc = "disconnect"]]
    /\ HubUnchanged

\* select!, branch rx.recv() with None: the channel is empty and its sender
\* was dropped; the loop ends with Ok(())
ConnectionChannelClosed(t) ==
    /\ hub.task[t].pc = "select"
    /\ hub.chan[t] = <<>>
    /\ ~hub.open[t]
    /\ hub' = [hub EXCEPT !.task[t].pc = "disconnect"]
    /\ HubUnchanged

\* select!, branch connection.receive() with Ok(frame): hub.broadcast
ConnectionReads(t) ==
    /\ hub.task[t].pc = "select"
    /\ Len(hub.reg) < MaxHubFrames
    /\ hub' = [hub EXCEPT !.reg = Append(@, {}),
                          !.task[t].pc = "broadcast",
                          !.task[t].frame = Len(hub.reg) + 1]
    /\ HubUnchanged

\* select!, branch connection.receive() with Err(error): a disconnect ends
\* the loop with Ok(()), another error with Err(error), which is published
\* as Errored after the loop
ConnectionReadFails(t) ==
    /\ hub.task[t].pc = "select"
    /\ \E disconnected \in BOOLEAN :
        hub' = [hub EXCEPT
                  !.task[t] = IF disconnected THEN [@ EXCEPT !.pc = "disconnect"]
                              ELSE Publishing([@ EXCEPT !.result = "Err"],
                                              "Errored", "disconnect")]
    /\ HubUnchanged

\* Hub::broadcast: self.inner.lock().await; the loop over the map starts,
\* in the order the HashMap gives
ConnectionBroadcastLocks(t) ==
    /\ hub.task[t].pc = "broadcast"
    /\ hub.lock = NoTask
    /\ \E order \in Orders(broadcast_destinations(hub.connections, hub.name[t])) :
          hub' = [hub EXCEPT
                    !.lock = t,
                    !.reg[hub.task[t].frame] =
                        {d \in HubTasks : hub.open[d]},
                    !.task[t].pc = "sending",
                    !.task[t].todo = order]
    /\ HubUnchanged

\* Hub::broadcast: channel.send(message.clone()).await to the next
\* destination, when its channel has space (an error, for a channel whose
\* receiver is gone, is logged); after the last one drop(inner) and publish
\* Frame(source, message)
ConnectionBroadcastSends(t) ==
    /\ hub.task[t].pc = "sending"
    /\ IF hub.task[t].todo = <<>>
       THEN hub' = [hub EXCEPT !.lock = NoTask,
                               !.task[t] = Publishing(@, "Frame", "select")]
       ELSE LET d == hub.connections[Head(hub.task[t].todo)] IN
            IF hub.task[d].pc = "done"
            THEN hub' = [hub EXCEPT !.task[t].todo = Tail(@)]
            ELSE /\ Len(hub.chan[d]) < CHANNEL_BUFFER
                 /\ hub' = [hub EXCEPT
                              !.chan[d] = Append(@, hub.task[t].frame),
                              !.enq = Append(@, [src |-> t, id |-> hub.task[t].frame,
                                                 dest |-> d]),
                              !.task[t].todo = Tail(@)]
    /\ HubUnchanged

\* hub.disconnect(name): the sender under the task's name is removed under
\* the lock, then Disconnected is published and the task ends
ConnectionDisconnects(t) ==
    /\ hub.task[t].pc = "disconnect"
    /\ hub.lock = NoTask
    /\ LET connections == [hub.connections EXCEPT ![hub.name[t]] = NoTask] IN
       hub' = [hub EXCEPT !.connections = connections,
                          !.open = SendersOf(connections),
                          !.task[t] = Publishing(@, "Disconnected", "done")]
    /\ HubUnchanged

\* State::run_receiver: one message of the subscriber's channel
StateReceives ==
    /\ hub.sub # <<>>
    /\ hub' = [hub EXCEPT !.sub = Tail(@),
                          !.seen = Append(@, Head(hub.sub)),
                          !.cstate = state_on_message(@, Head(hub.sub))]
    /\ HubUnchanged

NextHubLife ==
    \/ \E t \in HubTasks :
          \/ ConnectionConnects(t)
          \/ ConnectionPublishLocks(t)
          \/ ConnectionPublishSends(t)
          \/ ConnectionWrites(t)
          \/ ConnectionChannelClosed(t)
          \/ ConnectionReads(t)
          \/ ConnectionReadFails(t)
          \/ ConnectionBroadcastLocks(t)
          \/ ConnectionBroadcastSends(t)
          \/ ConnectionDisconnects(t)
    \/ StateReceives

SpecHub == InitHubLife /\ [][NextHubLife]_vars

\* every message published so far, in the order of publication
Published == hub.seen \o hub.sub

\* how often frame id was put into the channel of task d
EnqCount(id, d) ==
    Cardinality({i \in DOMAIN hub.enq : hub.enq[i].id = id /\ hub.enq[i].dest = d})

\* how often the Frame of task t with frame id occurs in a sequence of
\* subscriber messages
FrameCount(seq, t, id) ==
    Cardinality({i \in DOMAIN seq :
                    seq[i] = SubscriberMessage("Frame", hub.name[t], id, t)})

\* no frame is put twice into one channel or into the channel of the task
\* that received it, and the subscriber is sent one Frame for a frame whose
\* broadcast has returned and none before
DeliveredAtMostOnce ==
    /\ \A i \in DOMAIN hub.enq : hub.enq[i].dest # hub.enq[i].src
    /\ \A id \in DOMAIN hub.reg : \A d \in HubTasks : EnqCount(id, d) <= 1
    /\ \A id \in DOMAIN hub.reg : \A t \in HubTasks :
          /\ FrameCount(Published, t, id) <= 1
          /\ FrameCount(Published, t, id) = 1 => id \in hub.handled
    /\ \A id \in hub.handled : \E s \in HubTasks :
          /\ \A i \in DOMAIN hub.enq : hub.enq[i].id = id => hub.enq[i].src = s
          /\ \A t \in HubTasks :
                FrameCount(Published, t, id) = IF t = s THEN 1 ELSE 0

\* a frame whose broadcast has returned is in the channel of every other
\* task that was registered when the broadcast took the lock, and of no
\* other
DeliveredToOthers ==
    \A id \in hub.handled : \E s \in HubTasks :
        /\ FrameCount(Published, s, id) = 1
        /\ \A d \in HubTasks :
              EnqCount(id, d) = IF d \in hub.reg[id] \ {s} THEN 1 ELSE 0

(* C31: a frame received on connection S is put into the channel of every  *)
(* other connection that was registered when the broadcast took the lock,   *)
(* exactly once, and never into the channel of S; once the broadcast call   *)
(* has returned, the subscriber has been sent exactly one Frame(S, frame).  *)
C31_BroadcastOnceToOthers == DeliveredAtMostOnce /\ DeliveredToOthers

\* the names of the connections differ
DistinctNames == \A t, u \in HubTasks : t # u => hub.name[t] # hub.name[u]

\* C31 holds between connections whose names differ
C31_BroadcastOnceToOtherNames ==
    /\ DeliveredAtMostOnce
    /\ DistinctNames => DeliveredToOthers

C31_DistinctNamesWitness ==
    /\ DistinctNames
    /\ \E id \in hub.handled :
        /\ hub.reg[id] = HubTasks
        /\ \E i \in DOMAIN hub.enq : hub.enq[i].id = id
        /\ \E i \in DOMAIN hub.seen : hub.seen[i].kind = "Frame" /\ hub.seen[i].id = id

\* the messages of a sequence that task t published
From(seq, t) == SelectSeq(seq, LAMBDA m : m.from = t)

\* the task of connection t ended after a read error that was no disconnect
EndedWithReadError(t) == hub.task[t].pc = "done" /\ hub.task[t].result = "Err"

\* of the messages of one connection Connected is published first and
\* Disconnected last, and after a read error that ended the connection,
\* Errored just before Disconnected; all carry the connection's name
PublishedInOrder ==
    \A t \in HubTasks :
        LET P == From(Published, t) IN
        /\ \A i \in DOMAIN P : P[i].name = hub.name[t]
        /\ P # <<>> => P[1].kind = "Connected"
        /\ \A i \in DOMAIN P : i > 1 => P[i].kind # "Connected"
        /\ \A i \in DOMAIN P : P[i].kind = "Disconnected" => i = Len(P)
        /\ hub.task[t].pc = "done" => P[Len(P)].kind = "Disconnected"
        /\ EndedWithReadError(t) => P[Len(P) - 1].kind = "Errored"

\* when the State has taken the Disconnected of a connection that ended
\* with a read error, it shows the connection's name as Errored
ErroredIsKept ==
    \A t \in HubTasks :
        (/\ EndedWithReadError(t)
         /\ hub.seen # <<>>
         /\ hub.seen[Len(hub.seen)].from = t
         /\ hub.seen[Len(hub.seen)].kind = "Disconnected")
        => hub.cstate[hub.name[t]] = "Errored"

(* C32: of the messages about one connection, Connected is published       *)
(* first (so before any Frame from it) and Disconnected last; when the      *)
(* connection ended with a read error that is not a disconnect, Errored is  *)
(* published before Disconnected, and when the State has taken that         *)
(* Disconnected it shows the connection as Errored.                         *)
C32_ConnectedFirstDisconnectedLast == PublishedInOrder /\ ErroredIsKept

\* C32 holds for connections whose names differ, and its order of
\* publication for all
C32_InOrderAndKeptForOtherNames ==
    /\ PublishedInOrder
    /\ DistinctNames => ErroredIsKept

C32_DistinctNamesWitness ==
    /\ DistinctNames
    /\ \E t \in HubTasks :
        /\ EndedWithReadError(t)
        /\ \E i \in DOMAIN hub.seen : hub.seen[i].kind = "Frame" /\ hub.seen[i].from = t
        /\ hub.seen[Len(hub.seen)].kind = "Disconnected"
        /\ hub.seen[Len(hub.seen)].from = t
        /\ hub.cstate[hub.name[t]] = "Errored"

====
